---- MODULE Spec2Model ----
(***************************************************************************)
(* A model of the course-learning agent: the tool-calling control loop of  *)
(* the LLM gateway (core/llm/openai_compat.py), the router's plan and the  *)
(* tool policy (core/agents/router.py, core/orchestration/policies.py),    *)
(* the tool dispatch (mcp_tools/client.py) and the practice / exam turn    *)
(* with its grading detector and record files                              *)
(* (core/orchestration/runner.py).                                         *)
(***************************************************************************)
EXTENDS Integers, Sequences, FiniteSets, TLC

\* ------------------------------------------------------------------ bounds

\* tool calls the provider puts in one response
MaxCalls == 2
\* deltas the provider sends in one streamed completion
MaxChunks == 2
\* pieces (prose, fences, JSON text) of the planner's reply
MaxReplyLen == 3
\* deltas of the model's answer in a practice or exam turn
MaxPieces == 3
\* graded events of one course, and the seconds they happen in
MaxEvents == 3
MaxTime == 3
\* chunks in a course index
MaxIndexChunks == 3
\* characters of a text to chunk, and the largest chunk_size given
MaxTextLen == 4
MaxChunkSize == 3
\* chunks added to one store, and chunks of one add_chunks call
MaxStoreChunks == 3
MaxBatch == 2
MaxEpisodes == 2
MaxTopK == 2
MaxTags == 2
MaxWriters == 2
MaxProfileCalls == 2
MaxNameLen == 2
MaxWorkspaces == 2
MaxStreamChunks == 3
MaxLearnTurns == 2
MaxNoteWrites == 2
MaxBuilds == 3
MaxLoads == 2
MaxGrades == 2

\* ------------------------------------------------------- program constants

\* chat_with_tools: max_rounds = 6
max_rounds == 6
\* chat_stream_with_tools: max_rounds = 6
max_rounds_stream == 6
\* history[-20:] of the practice handlers and of _save_practice_record
practice_window == 20
\* history[-30:] of the exam handlers and of _save_exam_record
exam_window == 30
\* the keywords a response must hold to count as grading
practice_min_keywords == 2
exam_min_keywords == 2
\* Retriever.retrieve: TOP_K_RESULTS default; the exam handlers: top_k=12
default_top_k == 3
exam_top_k == 12
\* simple_chunk_text: chunk_size = 512 when chunk_size <= 0
fallback_chunk_size == 512
default_min_importance == 0
weak_points_cap == 20
mistake_below == 60

VARIABLES
    \* ---- one chat turn seen from the LLM gateway
    mode,        \* the mode of the turn
    streaming,   \* TRUE: run_stream / teach_stream, FALSE: run / teach
    tools,       \* the tool schemas attached to the loop's requests (names)
    pc,          \* where the turn is
    round_idx,   \* rounds of the tool loop completed
    messages,    \* the local message list of the gateway call
    nextId,      \* the next tool-call id the provider hands out
    requests,    \* kinds of the requests sent to the provider, in order
    responses,   \* what the provider answered to each, in order
    sent,        \* the message list of the most recent request
    roundCalls,  \* ids of the tool calls of the latest tool-call response
    roundExec,   \* ids of the calls call_tool was invoked for, in order
    lastExec,    \* the latest call the for loop worked on
    yielded,     \* chunks yielded to the caller so far (streaming)
    result,      \* value returned to the caller (non-streaming)
    excAt        \* number of requests sent when the loop raised, 0 if never

loopVars == <<mode, streaming, tools, pc, round_idx, messages, nextId,
              requests, responses, sent, roundCalls, roundExec, lastExec,
              yielded, result, excAt>>

\* ---- RouterAgent.plan
VARIABLES
    p_mode,      \* the mode plan() is called with
    p_reply,     \* what llm.chat returned for the planning prompt
    p_plan,      \* the Plan returned
    p_pc         \* "start", "done", or "raised" when plan() raised

planVars == <<p_mode, p_reply, p_plan, p_pc>>

\* ---- a practice or exam turn of the runner
VARIABLES
    r_mode,          \* "practice" or "exam"
    r_streaming,     \* the streaming handler or the plain one
    r_history,       \* the history the client sent with the turn
    r_user_message,  \* the user's current message
    r_reply,         \* what the model answers to the turn's request
    r_pc,            \* "start", "streaming", "done", "raised", "abandoned"
    r_collected,     \* streaming: the chunks collected so far
    r_yielded,       \* streaming: the chunks yielded to the caller
    r_response,      \* plain: the content of the ChatMessage returned
    r_files          \* the record files in the course workspace

recVars == <<r_mode, r_streaming, r_history, r_user_message, r_reply, r_pc,
             r_collected, r_yielded, r_response, r_files>>

\* ---- the graded events of one course over time
VARIABLES
    e_now,       \* the wall clock, in seconds
    e_graded,    \* the graded practice and exam events so far
    e_files      \* the record files of the course workspace

evVars == <<e_now, e_graded, e_files>>

\* ---- OrchestrationRunner.run as a whole
VARIABLES
    u_mode,        \* the mode run() is called with
    u_reply,       \* what llm.chat returns for the planning prompt
    u_completion,  \* what the mode handler's completion call returns
    u_pc,          \* "start", "planned", "returned", "raised"
    u_plan,        \* the Plan of the turn
    u_messages     \* the ChatMessages returned to the caller

runVars == <<u_mode, u_reply, u_completion, u_pc, u_plan, u_messages>>

\* ---- the retrieval step of a turn
VARIABLES
    c_mode,        \* the mode of the turn
    c_streaming,   \* the streaming handler or the plain one
    c_need_rag,    \* plan.need_rag
    c_index,       \* the course index: whether its file exists, its chunks
    c_completion,  \* what the handler's completion call returns
    c_pc,          \* "start", "context", "returned", "raised"
    c_context,     \* the context put into the prompt
    c_retrievals,  \* calls of retriever.retrieve
    c_citations,   \* the citations attached to the response (0: None)
    c_raised_in,   \* the step that raised: "", "context" or "respond"
    c_results      \* the positions in self.chunks that search returned

ctxVars == <<c_mode, c_streaming, c_need_rag, c_index, c_completion, c_pc,
             c_context, c_retrievals, c_citations, c_raised_in, c_results>>

\* ---- simple_chunk_text
VARIABLES
    k_text,        \* the text, a sequence of characters
    k_chunk_size,  \* chunk_size, as given and then as clamped
    k_overlap,     \* overlap, as given and then as clamped
    k_pc,          \* "start", "loop", "done"
    k_start,       \* start
    k_starts,      \* the start index of every window so far
    k_chunks       \* chunks

chunkVars == <<k_text, k_chunk_size, k_overlap, k_pc, k_start, k_starts,
               k_chunks>>

\* ---- FAISSStore and its two files
VARIABLES
    s_index,          \* self.index: the vector rows, in order
    s_chunks,         \* self.chunks
    s_next,           \* the number the next chunk gets
    s_faiss,          \* the file <path>.faiss
    s_pkl,            \* the file <path>.pkl
    s_saved,          \* self.chunks as it was at the last save
    s_loaded          \* the fresh store after load(path), and the list
                      \* that was saved

storeVars == <<s_index, s_chunks, s_next, s_faiss, s_pkl, s_saved, s_loaded>>


VARIABLES
    m_episodes,    \* the episodes table, in the order of the inserts
    m_args,        \* the arguments of the search that ran, if one did
    m_result       \* the rows that search returned

memVars == <<m_episodes, m_args, m_result>>


VARIABLES
    w_row,         \* the user_profiles row of one (user, course), if any
    w_call         \* the last update_weak_points call: its tags, the list before

weakVars == <<w_row, w_call>>


VARIABLES
    f_row,         \* the user_profiles row of one (user, course), if any
    f_pc,          \* per writer: where its call stands
    f_local,       \* per writer: the fields it computed, the profile it read
    f_calls,       \* the calls started
    f_recorded,    \* the record_practice_result calls that returned
    f_merged       \* the tags of the update_weak_points calls that returned

profVars == <<f_row, f_pc, f_local, f_calls, f_recorded, f_merged>>


VARIABLES
    g_workspaces,  \* the registry: course name -> workspace path
    g_dirs,        \* the directories made on disk
    g_status       \* how the last create_workspace request ended

wsVars == <<g_workspaces, g_dirs, g_status>>


VARIABLES
    t_args,        \* the arguments of the call_tool call that ran, if one did
    t_outcome      \* what that call returned, or that it raised

toolVars == <<t_args, t_outcome>>


VARIABLES
    v_pc,          \* where event_generator stands
    v_pulled,      \* the chunks run_stream yielded so far
    v_events,      \* the events event_generator yielded so far
    v_raised       \* what run_stream raised, if it did

sseVars == <<v_pc, v_pulled, v_events, v_raised>>


VARIABLES
    n_context,     \* MCPTools._context["notes_dir"], shared by every turn
    n_pc,          \* per learn turn: where it stands
    n_course,      \* per learn turn: its course
    n_writes,      \* per learn turn: the filewriter calls it made
    n_written      \* the files written: by a turn of which course, where

noteVars == <<n_context, n_pc, n_course, n_writes, n_written>>


VARIABLES
    b_faiss,       \* <index_path>.faiss: the build whose vectors it holds
    b_pkl,         \* <index_path>.pkl: the build whose chunks it holds
    b_save_pc,     \* where the rebuild's save stands
    b_build,       \* the number of the build being saved, or saved last
    b_load_pc,     \* where the retriever load stands
    b_loads,       \* the loads started
    b_loaded       \* what the load got: vectors and chunks of which build

rebVars == <<b_faiss, b_pkl, b_save_pc, b_build, b_load_pc, b_loads, b_loaded>>


VARIABLES
    d_episodes,        \* the practice and mistake episodes stored
    d_total_practice,  \* the profile's total_practice
    d_merges,          \* the weak-point merges stored
    d_grades,          \* the grade calls made
    d_last             \* the last grade call: what it was given, what it did

gradeVars == <<d_episodes, d_total_practice, d_merges, d_grades, d_last>>

nonLoopVars == <<planVars, recVars, evVars, runVars, ctxVars, chunkVars,
    storeVars, memVars, weakVars, profVars, wsVars, toolVars, sseVars,
    noteVars, rebVars, gradeVars>>
nonPlanVars == <<loopVars, recVars, evVars, runVars, ctxVars, chunkVars,
    storeVars, memVars, weakVars, profVars, wsVars, toolVars, sseVars,
    noteVars, rebVars, gradeVars>>
nonRecVars == <<loopVars, planVars, evVars, runVars, ctxVars, chunkVars,
    storeVars, memVars, weakVars, profVars, wsVars, toolVars, sseVars,
    noteVars, rebVars, gradeVars>>
nonEvVars == <<loopVars, planVars, recVars, runVars, ctxVars, chunkVars,
    storeVars, memVars, weakVars, profVars, wsVars, toolVars, sseVars,
    noteVars, rebVars, gradeVars>>
nonRunVars == <<loopVars, planVars, recVars, evVars, ctxVars, chunkVars,
    storeVars, memVars, weakVars, profVars, wsVars, toolVars, sseVars,
    noteVars, rebVars, gradeVars>>
nonCtxVars == <<loopVars, planVars, recVars, evVars, runVars, chunkVars,
    storeVars, memVars, weakVars, profVars, wsVars, toolVars, sseVars,
    noteVars, rebVars, gradeVars>>
nonChunkVars == <<loopVars, planVars, recVars, evVars, runVars, ctxVars,
    storeVars, memVars, weakVars, profVars, wsVars, toolVars, sseVars,
    noteVars, rebVars, gradeVars>>
nonStoreVars == <<loopVars, planVars, recVars, evVars, runVars, ctxVars,
    chunkVars, memVars, weakVars, profVars, wsVars, toolVars, sseVars,
    noteVars, rebVars, gradeVars>>
nonMemVars == <<loopVars, planVars, recVars, evVars, runVars, ctxVars,
    chunkVars, storeVars, weakVars, profVars, wsVars, toolVars, sseVars,
    noteVars, rebVars, gradeVars>>
nonWeakVars == <<loopVars, planVars, recVars, evVars, runVars, ctxVars,
    chunkVars, storeVars, memVars, profVars, wsVars, toolVars, sseVars,
    noteVars, rebVars, gradeVars>>
nonProfVars == <<loopVars, planVars, recVars, evVars, runVars, ctxVars,
    chunkVars, storeVars, memVars, weakVars, wsVars, toolVars, sseVars,
    noteVars, rebVars, gradeVars>>
nonWsVars == <<loopVars, planVars, recVars, evVars, runVars, ctxVars,
    chunkVars, storeVars, memVars, weakVars, profVars, toolVars, sseVars,
    noteVars, rebVars, gradeVars>>
nonToolVars == <<loopVars, planVars, recVars, evVars, runVars, ctxVars,
    chunkVars, storeVars, memVars, weakVars, profVars, wsVars, sseVars,
    noteVars, rebVars, gradeVars>>
nonSseVars == <<loopVars, planVars, recVars, evVars, runVars, ctxVars,
    chunkVars, storeVars, memVars, weakVars, profVars, wsVars, toolVars,
    noteVars, rebVars, gradeVars>>
nonNoteVars == <<loopVars, planVars, recVars, evVars, runVars, ctxVars,
    chunkVars, storeVars, memVars, weakVars, profVars, wsVars, toolVars,
    sseVars, rebVars, gradeVars>>
nonRebVars == <<loopVars, planVars, recVars, evVars, runVars, ctxVars,
    chunkVars, storeVars, memVars, weakVars, profVars, wsVars, toolVars,
    sseVars, noteVars, gradeVars>>
nonGradeVars == <<loopVars, planVars, recVars, evVars, runVars, ctxVars,
    chunkVars, storeVars, memVars, weakVars, profVars, wsVars, toolVars,
    sseVars, noteVars, rebVars>>

vars == <<loopVars, planVars, recVars, evVars, runVars, ctxVars, chunkVars,
    storeVars, memVars, weakVars, profVars, wsVars, toolVars, sseVars,
    noteVars, rebVars, gradeVars>>

\* ------------------------------------------------------------ tool policy

Modes == {"learn", "practice", "exam"}

\* ToolPolicy.MODE_POLICIES
MODE_POLICIES ==
    [learn    |-> <<"calculator", "websearch", "filewriter", "memory_search">>,
     practice |-> <<"calculator", "filewriter", "memory_search">>,
     exam     |-> <<"calculator">>]

\* ToolPolicy.get_allowed_tools: MODE_POLICIES.get(mode, [])
get_allowed_tools(m) ==
    IF m \in DOMAIN MODE_POLICIES THEN MODE_POLICIES[m] ELSE <<>>

SeqToSet(s) == {s[i] : i \in 1..Len(s)}

\* the names of TOOL_SCHEMAS, in the order of the list
TOOL_SCHEMAS ==
    <<"calculator", "websearch", "memory_search", "mindmap_generator",
      "filewriter">>

\* get_tool_schemas: [s for s in TOOL_SCHEMAS if s.name in allowed_tools]
get_tool_schemas(allowed) ==
    SelectSeq(TOOL_SCHEMAS, LAMBDA n : n \in SeqToSet(allowed))

\* ----------------------------------------------------------- tool dispatch

\* the names MCPTools.call_tool has a branch for; any other name gets the
\* "unknown tool" result and runs nothing
DispatchedTools ==
    {"calculator", "websearch", "memory_search", "mindmap_generator",
     "filewriter"}

\* MCPTools.call_tool(tool_name, **kwargs): the tool that runs, if any
call_tool(tool_name) ==
    [tool |-> tool_name, ran |-> tool_name \in DispatchedTools]

\* ------------------------------------------------------- provider's answers

\* message.content of a completion: None, the empty string, or a text; the
\* text of the k-th request's answer is distinct from every other's
None == "<None>"
Text(k) == "text" \o ToString(k)
Contents(k) == {None, "", Text(k)}

\* the names the model may put in a tool call: allowed ones, one that is in
\* no allow-list (mindmap_generator, which the tutor's system prompt tells
\* the model to call) and one that no tool has (get_datetime, likewise)
RequestedNames == {"calculator", "websearch", "mindmap_generator", "get_datetime"}

\* function.arguments of a tool call: "object" decodes to a JSON object,
\* "malformed" is not JSON, "nonobject" is JSON but no object ([1], 3, null).
\* result_json: whether the tool's result can be JSON-encoded; the
\* calculator returns whatever eval gives ("sin" gives a function).
ModelCalls ==
    {[name |-> n, args |-> "object", result_json |-> TRUE] : n \in RequestedNames}
    \cup {[name |-> "calculator", args |-> a, result_json |-> TRUE] :
            a \in {"malformed", "nonobject"}}
    \cup {[name |-> "calculator", args |-> "object", result_json |-> FALSE]}

\* len(msg.tool_calls) of a response that carries tool calls
ToolCallCounts == 1..MaxCalls

\* ------------------------------------------------------------ message list

PlainTurn(role) == [role |-> role, tool_calls |-> <<>>, tool_call_id |-> 0]
AssistantTurn(ids) == [role |-> "assistant", tool_calls |-> ids, tool_call_id |-> 0]
ToolTurn(id) == [role |-> "tool", tool_calls |-> <<>>, tool_call_id |-> id]

\* TutorAgent.teach: system prompt, (history), the user's prompt
InitialMessages == <<PlainTurn("system"), PlainTurn("user")>>

\* ------------------------------------------------------ RouterAgent.plan

\* Plan.task_type, Plan.style, Plan.output_format: the Literal types
TaskTypes == {"learn", "practice", "exam", "general"}
Styles == {"step_by_step", "hint_first", "direct"}
OutputFormats == {"answer", "quiz", "exam", "report"}

\* the modes plan() is called with: the three modes, and two that are
\* none, one of them a task_type
PlanModes == Modes \cup {"review", "general"}

NoPlan ==
    [need_rag |-> FALSE, allowed_tools |-> <<>>, task_type |-> "",
     style |-> "", output_format |-> ""]

\* the JSON value in the planner's reply: an object with some of the Plan's
\* keys (keys: the keys present; a field's value counts only when its key
\* is present), or a value that is no object
MkPayload(nr, at, tt, st, of) ==
    [type |-> "object",
     keys |-> {k \in {"need_rag", "allowed_tools", "task_type", "style",
                      "output_format"} :
                 \/ k = "need_rag" /\ nr # "absent"
                 \/ k = "allowed_tools" /\ at # <<"absent">>
                 \/ k = "task_type" /\ tt # "absent"
                 \/ k = "style" /\ st # "absent"
                 \/ k = "output_format" /\ of # "absent"},
     need_rag |-> nr, allowed_tools |-> at, task_type |-> tt, style |-> st,
     output_format |-> of]

ArrayPayload ==
    [type |-> "array", keys |-> {}, need_rag |-> "absent",
     allowed_tools |-> <<"absent">>, task_type |-> "absent",
     style |-> "absent", output_format |-> "absent"]

Payloads ==
    {MkPayload(nr, at, tt, st, of) :
        nr \in {"absent", "false", "maybe"},
        at \in {<<"absent">>, <<"websearch", "filewriter">>},
        tt \in {"absent", "general"},
        st \in {"absent", "direct", "bogus"},
        of \in {"absent", "quiz"}}
    \cup {ArrayPayload}

\* the reply as text: a sequence of pieces, each prose, a ```json fence, a
\* ``` fence, or the text of the JSON value
Pieces == {"prose", "fence_json", "fence", "json"}

RECURSIVE PieceSeqs(_)
PieceSeqs(n) ==
    IF n = 0 THEN {<<>>}
    ELSE PieceSeqs(n - 1)
         \cup {Append(s, x) : s \in {t \in PieceSeqs(n - 1) : Len(t) = n - 1},
                              x \in Pieces}

\* what llm.chat returns: None (a completion without content) or a text;
\* the error string of a failed request is a text of prose
Replies ==
    {[kind |-> "none", pieces |-> <<>>, payload |-> ArrayPayload]}
    \cup UNION {{[kind |-> "text", pieces |-> t, payload |-> p] :
                    p \in {q \in Payloads :
                             \/ q = ArrayPayload
                             \/ \E i \in 1..Len(t) : t[i] = "json"}} :
                 t \in PieceSeqs(MaxReplyLen)}

\* the index of the first piece of s in F at or after position i, else
\* Len(s) + 1
RECURSIVE FirstIn(_, _, _)
FirstIn(s, F, i) ==
    IF i > Len(s) THEN Len(s) + 1
    ELSE IF s[i] \in F THEN i
    ELSE FirstIn(s, F, i + 1)

\* the json_str of RouterAgent.plan:
\*   "```json" in response: response.split("```json")[1].split("```")[0]
\*   "```" in response:     response.split("```")[1].split("```")[0]
\*   else:                  response
\* ("```" also splits at a "```json" fence); stripping changes no piece
ExtractJson(pieces) ==
    LET fences == {"fence_json", "fence"}
        n == Len(pieces)
    IN IF \E i \in 1..n : pieces[i] = "fence_json"
       THEN LET a == FirstIn(pieces, {"fence_json"}, 1)
                b == FirstIn(pieces, fences, a + 1)
            IN SubSeq(pieces, a + 1, b - 1)
       ELSE IF \E i \in 1..n : pieces[i] = "fence"
       THEN LET a == FirstIn(pieces, {"fence"}, 1)
                b == FirstIn(pieces, {"fence"}, a + 1)
            IN SubSeq(pieces, a + 1, b - 1)
       ELSE pieces

\* json.loads(json_str): the JSON value when json_str is exactly the text
\* of one, else it raises
json_loads_ok(json_str) == json_str = <<"json">>

\* a variant that leaves the model's allowed_tools and task_type in place
OverrideWithPolicy_KeepModel(plan_dict, m) ==
    [keys |-> plan_dict.keys \cup {"allowed_tools", "task_type"},
     need_rag |-> plan_dict.need_rag,
     allowed_tools |-> IF "allowed_tools" \in plan_dict.keys
                       THEN plan_dict.allowed_tools ELSE get_allowed_tools(m),
     task_type |-> IF "task_type" \in plan_dict.keys
                   THEN plan_dict.task_type ELSE m,
     style |-> plan_dict.style,
     output_format |-> plan_dict.output_format]

\* plan_dict["allowed_tools"] = ToolPolicy.get_allowed_tools(mode)
\* plan_dict["task_type"] = mode
OverrideWithPolicy(plan_dict, m) ==
    [keys |-> plan_dict.keys \cup {"allowed_tools", "task_type"},
     need_rag |-> plan_dict.need_rag,
     allowed_tools |-> get_allowed_tools(m),
     task_type |-> m,
     style |-> plan_dict.style,
     output_format |-> plan_dict.output_format]

\* Plan(**plan_dict): whether the values given validate
PlanValid(d) ==
    /\ "need_rag" \in d.keys => d.need_rag \in {"true", "false"}
    /\ "task_type" \in d.keys => d.task_type \in TaskTypes
    /\ "style" \in d.keys => d.style \in Styles
    /\ "output_format" \in d.keys => d.output_format \in OutputFormats

\* Plan(**plan_dict): the given values, the field's default for a key that
\* is not given
MakePlan(d) ==
    [need_rag |-> IF "need_rag" \in d.keys THEN d.need_rag = "true" ELSE TRUE,
     allowed_tools |-> IF "allowed_tools" \in d.keys THEN d.allowed_tools ELSE <<>>,
     task_type |-> IF "task_type" \in d.keys THEN d.task_type ELSE "learn",
     style |-> IF "style" \in d.keys THEN d.style ELSE "step_by_step",
     output_format |-> IF "output_format" \in d.keys THEN d.output_format
                       ELSE "answer"]

\* the except branch of RouterAgent.plan: the default plan as a plan_dict
DefaultPlanDict(m) ==
    [keys |-> {"need_rag", "allowed_tools", "task_type", "style", "output_format"},
     need_rag |-> "true",
     allowed_tools |-> get_allowed_tools(m),
     task_type |-> m,
     style |-> "step_by_step",
     output_format |-> "answer"]

\* RouterAgent.plan(user_message, mode, course_name) for the reply r of
\* llm.chat: [raised, plan]. The try block raises when r is None
\* ("```json" in None), when json.loads raises, when the value is no dict
\* (item assignment), and when Plan(**plan_dict) does not validate; then
\* the default plan is built, which raises when mode is no task_type.
plan(m, r) ==
    LET parsed == r.kind = "text" /\ json_loads_ok(ExtractJson(r.pieces))
                  /\ r.payload.type = "object"
        plan_dict == OverrideWithPolicy(r.payload, m)
    IN IF parsed /\ PlanValid(plan_dict)
       THEN [raised |-> FALSE, plan |-> MakePlan(plan_dict)]
       ELSE IF PlanValid(DefaultPlanDict(m))
       THEN [raised |-> FALSE, plan |-> MakePlan(DefaultPlanDict(m))]
       ELSE [raised |-> TRUE, plan |-> NoPlan]

PlanIdle ==
    /\ p_mode = ""
    /\ p_reply = [kind |-> "none", pieces |-> <<>>, payload |-> ArrayPayload]
    /\ p_plan = NoPlan
    /\ p_pc = "idle"

PlanInit ==
    /\ p_mode \in PlanModes
    /\ p_reply \in Replies
    /\ p_plan = NoPlan
    /\ p_pc = "start"

\* RouterAgent.plan
router_plan ==
    /\ UNCHANGED nonPlanVars
    /\ p_pc = "start"
    /\ LET out == plan(p_mode, p_reply)
       IN /\ p_plan' = out.plan
          /\ p_pc' = IF out.raised THEN "raised" ELSE "done"
    /\ UNCHANGED <<p_mode, p_reply>>

\* ------------------------------------------- practice and exam records

\* A text is a sequence of characters. The characters that occur in the
\* keywords are named by their reading, with a digit where two characters
\* share one.
\*   _is_practice_grading keywords:
\*     评分结果 标准解析 易错提醒 得分 答对的部分 需要改进
PracticeKeywords ==
    << <<"ping", "fen", "jie2", "guo">>,
       <<"biao1", "zhun", "jie3", "xi">>,
       <<"yi4", "cuo", "ti2", "xing">>,
       <<"de2", "fen">>,
       <<"da", "dui", "de5", "bu", "fen">>,
       <<"xu", "yao", "gai", "jin">> >>

\*   _is_exam_grading keywords:
\*     批改报告 逐题详批 评分总表 总得分 总分 考后建议 薄弱知识点
ExamKeywords ==
    << <<"pi", "gai", "bao", "gao">>,
       <<"zhu", "ti3", "xiang", "pi">>,
       <<"ping", "fen", "zong", "biao3">>,
       <<"zong", "de2", "fen">>,
       <<"zong", "fen">>,
       <<"kao", "hou", "jian", "yi9">>,
       <<"bo", "ruo", "zhi", "shi", "dian">> >>

\* kw in text
Contains(text, kw) ==
    \E i \in 1..(Len(text) - Len(kw) + 1) :
        SubSeq(text, i, i + Len(kw) - 1) = kw

\* sum(1 for kw in keywords if kw in text)
RECURSIVE SumMatches(_, _, _)
SumMatches(keywords, text, i) ==
    IF i > Len(keywords) THEN 0
    ELSE (IF Contains(text, keywords[i]) THEN 1 ELSE 0)
         + SumMatches(keywords, text, i + 1)

\* a detector that is content with one keyword
_is_practice_grading_OneKeyword(text) ==
    SumMatches(PracticeKeywords, text, 1) >= 1

_is_practice_grading(text) ==
    SumMatches(PracticeKeywords, text, 1) >= practice_min_keywords

_is_exam_grading(text) ==
    SumMatches(ExamKeywords, text, 1) >= exam_min_keywords

\* the pieces the model's answers are made of here: 总得分, 总分, 得分,
\* 标准解析, and 总 alone; the request's error string and any other prose
\* count as text without keywords
ReplyPieces ==
    { <<"zong", "de2", "fen">>, <<"zong", "fen">>, <<"de2", "fen">>,
      <<"biao1", "zhun", "jie3", "xi">>, <<"zong">> }

RECURSIVE ChunkSeqs(_)
ChunkSeqs(n) ==
    IF n = 0 THEN {<<>>}
    ELSE ChunkSeqs(n - 1)
         \cup {Append(s, x) : s \in {t \in ChunkSeqs(n - 1) : Len(t) = n - 1},
                              x \in ReplyPieces}

\* "".join(chunks)
RECURSIVE Join(_)
Join(chunks) ==
    IF chunks = <<>> THEN <<>>
    ELSE Head(chunks) \o Join(Tail(chunks))

\* the model's answer: its deltas in order, or (plain handler only) a
\* completion whose content is None
TurnReplies(stream) ==
    {[kind |-> "text", chunks |-> c] : c \in ChunkSeqs(MaxPieces)}
    \cup (IF stream THEN {}
          ELSE {[kind |-> "none", chunks |-> <<>>]})

HistoryWindow(m) == IF m = "practice" THEN practice_window ELSE exam_window

\* what a history entry's content is: empty, a text, or a text that holds
\* one of the exam paper markers (模拟考试试卷, 第一部分, 第二部分)
ContentKinds(m) ==
    IF m = "practice" THEN {"empty", "text"} ELSE {"text", "paper"}

\* the history of n entries whose entries at the offsets (from the end) in
\* DOMAIN asst are assistant messages of the given kinds, all others user
\* messages; a non-empty content is named after its position
MkHistory(n, asst) ==
    [i \in 1..n |->
        LET off == n - i + 1
            kind == IF off \in DOMAIN asst THEN asst[off] ELSE "text"
        IN [role |-> IF off \in DOMAIN asst THEN "assistant" ELSE "user",
            content |-> IF kind = "empty" THEN "" ELSE "h" \o ToString(i),
            marker |-> kind = "paper"]]

\* the histories of a turn: none, one entry, and one entry more than the
\* handler's window, with assistant messages among the newest entry, the
\* oldest entry of the window and the entry before the window
Histories(m) ==
    LET W == HistoryWindow(m)
    IN UNION {UNION {{MkHistory(n, a) : a \in [S -> ContentKinds(m)]} :
                        S \in SUBSET ({1, W, W + 1} \cap (1..n))} :
                 n \in {0, 1, W + 1}}

\* history[-w:]
LastN(history, w) ==
    SubSeq(history, IF Len(history) > w THEN Len(history) - w + 1 ELSE 1,
           Len(history))

Placeholder == "(no question extracted)"   \* （未能提取题目内容）
PaperPlaceholder == "(no paper extracted)" \* （未能提取试卷内容）

NoPath == [course |-> "", dir |-> "", prefix |-> "", ts |-> 0]

CourseName == "course"
Times == {1, 2}

\* for msg in reversed(msgs): the newest assistant entry at or before i,
\* else 0
RECURSIVE LastAssistant(_, _)
LastAssistant(msgs, i) ==
    IF i = 0 THEN 0
    ELSE IF msgs[i].role = "assistant" THEN i
    ELSE LastAssistant(msgs, i - 1)

\* the newest assistant entry at or before i whose content holds a paper
\* marker, else 0
RECURSIVE LastPaper(_, _)
LastPaper(msgs, i) ==
    IF i = 0 THEN 0
    ELSE IF msgs[i].role = "assistant" /\ msgs[i].marker THEN i
    ELSE LastPaper(msgs, i - 1)

\* a variant that takes the answer from the history
_save_practice_record_AnswerFromHistory(course, user_message, history, text, now) ==
    LET msgs == LastN(history, practice_window)
        i == LastAssistant(msgs, Len(msgs))
        quiz_content == IF i = 0 THEN "" ELSE msgs[i].content
    IN [path |-> [course |-> course, dir |-> "practices",
                  prefix |-> "practice_record", ts |-> now],
        question |-> IF quiz_content = "" THEN Placeholder ELSE quiz_content,
        answer |-> IF history = <<>> THEN user_message
                   ELSE history[Len(history)].content,
        grading |-> text]

\* _save_practice_record: the file written. quiz_content is the content of
\* the newest assistant entry of history[-20:] (the loop breaks at it), and
\* "quiz_content or placeholder" puts the placeholder for None and for "".
_save_practice_record(course, user_message, history, text, now) ==
    LET msgs == LastN(history, practice_window)
        i == LastAssistant(msgs, Len(msgs))
        quiz_content == IF i = 0 THEN "" ELSE msgs[i].content
    IN [path |-> [course |-> course, dir |-> "practices",
                  prefix |-> "practice_record", ts |-> now],
        question |-> IF quiz_content = "" THEN Placeholder ELSE quiz_content,
        answer |-> user_message,
        grading |-> text]

\* _save_exam_record: the paper is the content of the newest assistant
\* entry of history[-30:] that holds a paper marker
_save_exam_record(course, user_message, history, text, now) ==
    LET msgs == LastN(history, exam_window)
        i == LastPaper(msgs, Len(msgs))
        exam_paper == IF i = 0 THEN "" ELSE msgs[i].content
    IN [path |-> [course |-> course, dir |-> "exams",
                  prefix |-> "exam_record", ts |-> now],
        question |-> IF exam_paper = "" THEN PaperPlaceholder ELSE exam_paper,
        answer |-> user_message,
        grading |-> text]

\* the detector and the save a handler of mode m calls
is_grading(m, text) ==
    IF m = "practice" THEN _is_practice_grading(text) ELSE _is_exam_grading(text)

save_record(m, course, user_message, history, text, now) ==
    IF m = "practice"
    THEN _save_practice_record(course, user_message, history, text, now)
    ELSE _save_exam_record(course, user_message, history, text, now)

\* open(filepath, "w"): the file of that path is created or replaced
WriteFile(files, rec) ==
    {f \in files : f.path # rec.path} \cup {rec}

NoResponse == [text |-> <<>>, note |-> NoPath, set |-> FALSE]

UserMessages == {"answer A", "answer B"}

RecIdle ==
    /\ r_mode = ""
    /\ r_streaming = FALSE
    /\ r_history = <<>>
    /\ r_user_message = ""
    /\ r_reply = [kind |-> "none", chunks |-> <<>>]
    /\ r_pc = "idle"
    /\ r_collected = <<>>
    /\ r_yielded = <<>>
    /\ r_response = NoResponse
    /\ r_files = {}

RecInit ==
    /\ r_mode \in {"practice", "exam"}
    /\ r_streaming \in BOOLEAN
    /\ r_history \in Histories(r_mode)
    /\ r_user_message \in UserMessages
    /\ r_reply \in TurnReplies(r_streaming)
    /\ r_pc = "start"
    /\ r_collected = <<>>
    /\ r_yielded = <<>>
    /\ r_response = NoResponse
    /\ r_files = {}

\* the plain handlers after llm.chat returned: the detector, the save and
\* the note. A reply of None makes the detector raise ("kw in None").
PlainTurnEnd ==
    /\ ~r_streaming
    /\ r_pc = "start"
    /\ IF r_reply.kind = "none"
       THEN /\ r_pc' = "raised"
            /\ UNCHANGED <<r_response, r_files>>
       ELSE LET response_text == Join(r_reply.chunks)
            IN IF is_grading(r_mode, response_text)
               THEN \E now \in Times :
                      LET rec == save_record(r_mode, CourseName, r_user_message,
                                             r_history, response_text, now)
                      IN /\ r_files' = WriteFile(r_files, rec)
                         /\ r_response' = [text |-> response_text,
                                           note |-> rec.path, set |-> TRUE]
                         /\ r_pc' = "done"
               ELSE /\ r_response' = [text |-> response_text,
                                      note |-> NoPath, set |-> TRUE]
                    /\ r_pc' = "done"
                    /\ UNCHANGED r_files
    /\ UNCHANGED <<r_mode, r_streaming, r_history, r_user_message, r_reply,
                   r_collected, r_yielded>>

\* a variant that saves the record as soon as the collected text counts as
\* grading
StreamTurnChunk_SaveEarly ==
    /\ r_streaming
    /\ r_pc \in {"start", "streaming"}
    /\ Len(r_collected) < Len(r_reply.chunks)
    /\ LET chunk == r_reply.chunks[Len(r_collected) + 1]
           so_far == Join(Append(r_collected, chunk))
       IN /\ r_collected' = Append(r_collected, chunk)
          /\ r_yielded' = Append(r_yielded, [text |-> chunk, note |-> NoPath])
          /\ r_files' = IF is_grading(r_mode, so_far)
                        THEN WriteFile(r_files,
                                 save_record(r_mode, CourseName, r_user_message,
                                             r_history, so_far, 1))
                        ELSE r_files
    /\ r_pc' = "streaming"
    /\ UNCHANGED <<r_mode, r_streaming, r_history, r_user_message, r_reply,
                   r_response>>

\* the streaming handlers: one chunk of llm.chat_stream is collected and
\* yielded
StreamTurnChunk ==
    /\ r_streaming
    /\ r_pc \in {"start", "streaming"}
    /\ Len(r_collected) < Len(r_reply.chunks)
    /\ LET chunk == r_reply.chunks[Len(r_collected) + 1]
       IN /\ r_collected' = Append(r_collected, chunk)
          /\ r_yielded' = Append(r_yielded, [text |-> chunk, note |-> NoPath])
    /\ r_pc' = "streaming"
    /\ UNCHANGED <<r_mode, r_streaming, r_history, r_user_message, r_reply,
                   r_response, r_files>>

\* the streaming handlers after the stream ended: join, the detector, the
\* save, and the note as a last chunk
StreamTurnEnd ==
    /\ r_streaming
    /\ r_pc \in {"start", "streaming"}
    /\ Len(r_collected) = Len(r_reply.chunks)
    /\ LET full_response == Join(r_collected)
       IN IF is_grading(r_mode, full_response)
          THEN \E now \in Times :
                 LET rec == save_record(r_mode, CourseName, r_user_message,
                                        r_history, full_response, now)
                 IN /\ r_files' = WriteFile(r_files, rec)
                    /\ r_yielded' = Append(r_yielded,
                                           [text |-> <<>>, note |-> rec.path])
          ELSE UNCHANGED <<r_files, r_yielded>>
    /\ r_pc' = "done"
    /\ UNCHANGED <<r_mode, r_streaming, r_history, r_user_message, r_reply,
                   r_collected, r_response>>

\* the consumer of a streaming handler stops iterating: the generator,
\* suspended at "yield chunk", is closed and runs no further statement
generator_close ==
    /\ UNCHANGED nonRecVars
    /\ r_streaming
    /\ r_pc = "streaming"
    /\ r_pc' = "abandoned"
    /\ UNCHANGED <<r_mode, r_streaming, r_history, r_user_message, r_reply,
                   r_collected, r_yielded, r_response, r_files>>

run_practice_mode ==
    /\ UNCHANGED nonRecVars
    /\ r_mode = "practice"
    /\ PlainTurnEnd

run_practice_mode_stream_chunk ==
    /\ UNCHANGED nonRecVars
    /\ r_mode = "practice"
    /\ StreamTurnChunk

run_practice_mode_stream ==
    /\ UNCHANGED nonRecVars
    /\ r_mode = "practice"
    /\ StreamTurnEnd

run_exam_mode ==
    /\ UNCHANGED nonRecVars
    /\ r_mode = "exam"
    /\ PlainTurnEnd

run_exam_mode_stream_chunk ==
    /\ UNCHANGED nonRecVars
    /\ r_mode = "exam"
    /\ StreamTurnChunk

run_exam_mode_stream ==
    /\ UNCHANGED nonRecVars
    /\ r_mode = "exam"
    /\ StreamTurnEnd

\* ------------------------------------------- records of successive events

\* a response that counts as grading in both modes: 总得分 标准解析 总分
GradingText ==
    <<"zong", "de2", "fen", "biao1", "zhun", "jie3", "xi", "zong", "fen">>

EvIdle ==
    /\ e_now = 0
    /\ e_graded = 0
    /\ e_files = {}

EvInit ==
    /\ e_now = 1
    /\ e_graded = 0
    /\ e_files = {}

\* a graded practice turn, of this request or of a concurrent one, saves
\* its record: the file name carries datetime.now() to the second
practice_graded ==
    /\ UNCHANGED nonEvVars
    /\ e_graded < MaxEvents
    /\ \E msg \in UserMessages :
          e_files' = WriteFile(e_files,
                        _save_practice_record(CourseName, msg, <<>>,
                                              GradingText, e_now))
    /\ e_graded' = e_graded + 1
    /\ UNCHANGED e_now

\* a graded exam turn saves its record
exam_graded ==
    /\ UNCHANGED nonEvVars
    /\ e_graded < MaxEvents
    /\ \E msg \in UserMessages :
          e_files' = WriteFile(e_files,
                        _save_exam_record(CourseName, msg, <<>>,
                                          GradingText, e_now))
    /\ e_graded' = e_graded + 1
    /\ UNCHANGED e_now

\* a second passes
clock_tick ==
    /\ UNCHANGED nonEvVars
    /\ e_now < MaxTime
    /\ e_now' = e_now + 1
    /\ UNCHANGED <<e_graded, e_files>>

\* --------------------------------------------------- OrchestrationRunner.run

\* the planner replies of a run: None, or a text of at most one piece
RunReplies == {r \in Replies : Len(r.pieces) <= 1}

\* what the handler's completion call (tutor.teach, llm.chat) hands back:
\* None (a completion without content, which LLMClient.chat returns as it
\* is), the empty string, a text, or the error string of a failed request
RunCompletions == {"<None>", "", "text", "Error calling LLM"}

\* ChatMessage(role="assistant", content=...): content must be a str
ChatMessageValid(content) == content # "<None>"

RunIdle ==
    /\ u_mode = ""
    /\ u_reply = [kind |-> "none", pieces |-> <<>>, payload |-> ArrayPayload]
    /\ u_completion = ""
    /\ u_pc = "idle"
    /\ u_plan = NoPlan
    /\ u_messages = <<>>

RunInit ==
    /\ u_mode \in PlanModes
    /\ u_reply \in RunReplies
    /\ u_completion \in RunCompletions
    /\ u_pc = "start"
    /\ u_plan = NoPlan
    /\ u_messages = <<>>

\* run: plan = self.router.plan(user_message, mode, course_name)
run_plan ==
    /\ UNCHANGED nonRunVars
    /\ u_pc = "start"
    /\ LET out == plan(u_mode, u_reply)
       IN /\ u_plan' = out.plan
          /\ u_pc' = IF out.raised THEN "raised" ELSE "planned"
    /\ UNCHANGED <<u_mode, u_reply, u_completion, u_messages>>

\* the content of run's response for a mode that is none of the three
UnknownMode(m) == "unknown mode: " \o m  \* f"未知模式: {mode}"

\* run: the mode handler and the return. In learn mode the text of
\* tutor.teach goes into ChatMessage, which rejects None; in practice and
\* exam mode the grading detector evaluates "kw in response_text", which
\* raises on None. Any str makes one assistant ChatMessage. A mode that is
\* none of the three has no handler and no completion.
run_mode ==
    /\ UNCHANGED nonRunVars
    /\ u_pc = "planned"
    /\ IF u_mode \notin Modes
       THEN /\ u_messages' = Append(u_messages,
                                [role |-> "assistant",
                                 content |-> UnknownMode(u_mode)])
            /\ u_pc' = "returned"
       ELSE IF ChatMessageValid(u_completion)
       THEN /\ u_messages' = Append(u_messages,
                                [role |-> "assistant", content |-> u_completion])
            /\ u_pc' = "returned"
       ELSE /\ u_pc' = "raised"
            /\ UNCHANGED u_messages
    /\ UNCHANGED <<u_mode, u_reply, u_completion, u_plan>>

\* ------------------------------------------------- retrieval of context

NoIndex == [exists |-> FALSE, size |-> 0]

NoMaterials == "(no materials found, upload first)"  \* （未找到相关教材，请先上传课程资料）

\* a variant that loads the store without looking for the file
load_retriever_NoCheck(index) == IF ~index.exists THEN "raise" ELSE "retriever"

\* load_retriever: None when <index_path>.faiss does not exist, else a
\* Retriever on the loaded store
load_retriever(index) == IF ~index.exists THEN "none" ELSE "retriever"

\* the orders in which an index of n vectors can rank them for a query:
\* the ids 0..n-1, nearest first
Rankings(n) ==
    {r \in [1..n -> 0..(n - 1)] : \A i, j \in 1..n : i # j => r[i] # r[j]}

\* self.index.search(query_embedding, top_k): the ids of the top_k nearest
\* vectors, padded with -1 when the index holds fewer than top_k
index_search(ranking, top_k) ==
    [i \in 1..top_k |-> IF i <= Len(ranking) THEN ranking[i] ELSE -1]

\* self.chunks[idx] on a list of size chunks: the position read, with
\* Python's negative indexing; IndexError outside -size..size-1
list_position(size, idx) == IF idx < 0 THEN size + idx ELSE idx

\* FAISSStore.search: the chunks of the ids with "idx < len(self.chunks)",
\* in the order of the ids
FAISSStore_search(size, ids) ==
    LET kept == SelectSeq(ids, LAMBDA idx : idx < size)
    IN IF \E i \in 1..Len(kept) : kept[i] < 0 - size
       THEN [raised |-> TRUE, results |-> <<>>]
       ELSE [raised |-> FALSE,
             results |-> [i \in 1..Len(kept) |-> list_position(size, kept[i])]]

top_k_of(m) == IF m = "exam" THEN exam_top_k ELSE default_top_k

\* whether the handler of mode m consults the retriever: learn and
\* practice "if plan.need_rag", exam always
wants_context(m, need_rag) == m = "exam" \/ need_rag

CtxIdle ==
    /\ c_mode = ""
    /\ c_streaming = FALSE
    /\ c_need_rag = FALSE
    /\ c_index = NoIndex
    /\ c_completion = ""
    /\ c_pc = "idle"
    /\ c_context = ""
    /\ c_retrievals = 0
    /\ c_citations = 0
    /\ c_raised_in = ""
    /\ c_results = <<>>

CtxInit ==
    /\ c_mode \in Modes
    /\ c_streaming \in BOOLEAN
    /\ c_need_rag \in BOOLEAN
    /\ c_index \in {NoIndex}
                   \cup {[exists |-> TRUE, size |-> n] : n \in 0..MaxIndexChunks}
    /\ c_completion \in RunCompletions
    /\ c_pc = "start"
    /\ c_context = ""
    /\ c_retrievals = 0
    /\ c_citations = 0
    /\ c_raised_in = ""
    /\ c_results = <<>>

\* the first part of every mode handler: the context and the citations
handler_context ==
    /\ UNCHANGED nonCtxVars
    /\ c_pc = "start"
    /\ IF ~wants_context(c_mode, c_need_rag)
       THEN /\ c_pc' = "context"
            /\ UNCHANGED <<c_context, c_retrievals, c_citations, c_raised_in,
                           c_results>>
       ELSE LET retriever == load_retriever(c_index)
            IN CASE retriever = "raise" ->
                      /\ c_pc' = "raised"
                      /\ c_raised_in' = "context"
                      /\ UNCHANGED <<c_context, c_retrievals, c_citations,
                                     c_results>>
                 [] retriever = "none" ->
                      /\ c_pc' = "context"
                      /\ c_context' = NoMaterials
                      /\ UNCHANGED <<c_retrievals, c_citations, c_raised_in,
                                     c_results>>
                 [] OTHER ->
                      \E ranking \in Rankings(c_index.size) :
                         LET found == FAISSStore_search(c_index.size,
                                          index_search(ranking, top_k_of(c_mode)))
                             hits == Len(found.results)
                         IN /\ c_retrievals' = c_retrievals + 1
                            /\ IF found.raised
                               THEN /\ c_pc' = "raised"
                                    /\ c_raised_in' = "context"
                                    /\ UNCHANGED <<c_context, c_citations, c_results>>
                               ELSE /\ c_pc' = "context"
                                    /\ c_results' = found.results
                                    /\ c_context' = IF hits = 0 THEN "" ELSE "retrieved"
                                    \* practice and exam responses carry no citations
                                    /\ c_citations' = IF c_mode = "exam" \/ (c_mode = "practice" /\ c_streaming)
                                                      THEN 0 ELSE hits
                                    /\ UNCHANGED c_raised_in
    /\ UNCHANGED <<c_mode, c_streaming, c_need_rag, c_index, c_completion>>

\* the rest of the handler: the completion and the response; the plain
\* handlers raise on a completion of None
handler_respond ==
    /\ UNCHANGED nonCtxVars
    /\ c_pc = "context"
    /\ IF ~c_streaming /\ ~ChatMessageValid(c_completion)
       THEN c_pc' = "raised" /\ c_raised_in' = "respond"
       ELSE c_pc' = "returned" /\ UNCHANGED c_raised_in
    /\ UNCHANGED <<c_mode, c_streaming, c_need_rag, c_index, c_completion,
                   c_context, c_retrievals, c_citations, c_results>>

\* ------------------------------------------------------ simple_chunk_text

\* the characters of a text: a blank and a letter
ChunkChars == {" ", "a"}

RECURSIVE CharSeqs(_)
CharSeqs(n) ==
    IF n = 0 THEN {<<>>}
    ELSE CharSeqs(n - 1)
         \cup {Append(t, c) : t \in {u \in CharSeqs(n - 1) : Len(u) = n - 1},
                              c \in ChunkChars}

\* text[a:b] for 0 <= a, with Python's clipping at the end of the text
Slice(text, a, b) ==
    SubSeq(text, a + 1, IF b > Len(text) THEN Len(text) ELSE b)

\* chunk.strip() is not empty
NonBlank(chunk) == \E i \in 1..Len(chunk) : chunk[i] # " "

ChunkIdle ==
    /\ k_text = <<>>
    /\ k_chunk_size = 0
    /\ k_overlap = 0
    /\ k_pc = "idle"
    /\ k_start = 0
    /\ k_starts = <<>>
    /\ k_chunks = <<>>

ChunkInit ==
    /\ k_text \in CharSeqs(MaxTextLen)
    /\ k_chunk_size \in (-1)..MaxChunkSize
    /\ k_overlap \in (-2)..(MaxChunkSize + 1)
    /\ k_pc = "start"
    /\ k_start = 0
    /\ k_starts = <<>>
    /\ k_chunks = <<>>

\* simple_chunk_text, up to the loop: the two clamps
simple_chunk_text ==
    /\ UNCHANGED nonChunkVars
    /\ k_pc = "start"
    /\ LET size == IF k_chunk_size <= 0 THEN fallback_chunk_size ELSE k_chunk_size
       IN /\ k_chunk_size' = size
          /\ k_overlap' = IF k_overlap >= size THEN size \div 2 ELSE k_overlap
    /\ k_pc' = "loop"
    /\ UNCHANGED <<k_text, k_start, k_starts, k_chunks>>

\* one pass of "while start < text_len"
simple_chunk_text_window ==
    /\ UNCHANGED nonChunkVars
    /\ k_pc = "loop"
    /\ k_start < Len(k_text)
    /\ LET end == k_start + k_chunk_size
           chunk == Slice(k_text, k_start, end)
           next_start == end - k_overlap
       IN /\ k_chunks' = IF NonBlank(chunk) THEN Append(k_chunks, chunk)
                         ELSE k_chunks
          /\ k_start' = IF next_start <= k_start THEN k_start + k_chunk_size
                        ELSE next_start
    /\ k_starts' = Append(k_starts, k_start)
    /\ UNCHANGED <<k_text, k_chunk_size, k_overlap, k_pc>>

\* the loop ends: return chunks
simple_chunk_text_return ==
    /\ UNCHANGED nonChunkVars
    /\ k_pc = "loop"
    /\ k_start >= Len(k_text)
    /\ k_pc' = "done"
    /\ UNCHANGED <<k_text, k_chunk_size, k_overlap, k_start, k_starts, k_chunks>>

\* -------------------------------------------------------------- FAISSStore

DocIds == {"d1", "d2"}

\* a file that does not exist, and a store that was not loaded
NoFile == [exists |-> FALSE, data |-> <<>>]
NotLoaded == [loaded |-> FALSE, index |-> <<>>, chunks |-> <<>>, saved |-> <<>>]

\* the chunks of one build_index call: numbered from base, each of some
\* document
ChunkBatches(base, n) ==
    {[i \in 1..n |-> [chunk_id |-> base + i - 1, doc_id |-> d[i]]] :
        d \in [1..n -> DocIds]}

\* embedding_model.embed(texts): one row per chunk, in the order of the
\* chunks; a row is named after the chunk it embeds
embed(chunks) == [i \in 1..Len(chunks) |-> chunks[i].chunk_id]

\* a variant that puts the new chunks in front of the list
add_chunks_Prepend(index, chunks, new_chunks, embeddings) ==
    [index |-> index \o embeddings, chunks |-> new_chunks \o chunks]

\* add_chunks: self.index.add(embeddings); self.chunks.extend(chunks)
add_chunks(index, chunks, new_chunks, embeddings) ==
    [index |-> index \o embeddings, chunks |-> chunks \o new_chunks]

\* faiss.write_index / pickle.dump: the file holds the rows / the list
write_file(data) == [exists |-> TRUE, data |-> data]

StoreIdle ==
    /\ s_index = <<>>
    /\ s_chunks = <<>>
    /\ s_next = 0
    /\ s_faiss = NoFile
    /\ s_pkl = NoFile
    /\ s_saved = <<>>
    /\ s_loaded = NotLoaded

StoreInit ==
    /\ s_index = <<>>
    /\ s_chunks = <<>>
    /\ s_next = 1
    /\ s_faiss = NoFile
    /\ s_pkl = NoFile
    /\ s_saved = <<>>
    /\ s_loaded = NotLoaded

\* build_index / add_chunks: a batch of chunks with its embeddings
store_add_chunks ==
    /\ UNCHANGED nonStoreVars
    /\ \E n \in 0..MaxBatch :
          /\ Len(s_chunks) + n <= MaxStoreChunks
          /\ \E batch \in ChunkBatches(s_next, n) :
                LET out == add_chunks(s_index, s_chunks, batch, embed(batch))
                IN /\ s_index' = out.index
                   /\ s_chunks' = out.chunks
          /\ s_next' = s_next + n
    /\ UNCHANGED <<s_faiss, s_pkl, s_saved, s_loaded>>

\* save(path): the index file, then the pickle of self.chunks
store_save ==
    /\ UNCHANGED nonStoreVars
    /\ s_faiss' = write_file(s_index)
    /\ s_pkl' = write_file(s_chunks)
    /\ s_saved' = s_chunks
    /\ UNCHANGED <<s_index, s_chunks, s_next, s_loaded>>

\* load(path) into a fresh FAISSStore
store_load ==
    /\ UNCHANGED nonStoreVars
    /\ s_faiss.exists
    /\ s_pkl.exists
    /\ s_loaded' = [loaded |-> TRUE, index |-> s_faiss.data,
                    chunks |-> s_pkl.data, saved |-> s_saved]
    /\ UNCHANGED <<s_index, s_chunks, s_next, s_faiss, s_pkl, s_saved>>

\* ------------------------------------------- SQLiteMemoryStore: episodes

\* the (user_id, course_name) pairs of the rows and of the searches
Owners == {<<"default", "c1">>, <<"default", "c2">>, <<"guest", "c1">>}
EventTypes == {"mistake", "practice"}

\* importance in tenths: 0.9 for a mistake, 0.4 for a correct answer
Importances == {4, 9}

\* contents and queries are sequences of characters
EpisodeContents == {<<"a">>, <<"A", "b">>}
Queries == {<<>>, <<"a">>, <<"_">>, <<"b", " ", "c">>}

\* event_types: None (or an empty list), or a list of types
NoTypes == {}
TypeFilters == {NoTypes, {"mistake"}}

NoArgs == [given |-> FALSE]

\* query.split(): the maximal runs of non-blank characters
RECURSIVE split(_, _)
split(q, cur) ==
    IF q = <<>> THEN (IF cur = <<>> THEN <<>> ELSE <<cur>>)
    ELSE IF Head(q) = " "
         THEN (IF cur = <<>> THEN <<>> ELSE <<cur>>) \o split(Tail(q), <<>>)
         ELSE split(Tail(q), Append(cur, Head(q)))

\* terms = [t.strip() for t in query.split() if t.strip()], and the query
\* itself when that list is empty
search_terms(query) ==
    IF split(query, <<>>) = <<>> THEN <<query>> ELSE split(query, <<>>)

\* SQLite folds the case of ASCII letters in LIKE
lower(ch) == IF ch = "A" THEN "a" ELSE ch

\* content LIKE pattern: "%" stands for any run of characters, "_" for any
\* one character, a letter for itself in either case
RECURSIVE like(_, _)
like(content, pattern) ==
    IF pattern = <<>> THEN content = <<>>
    ELSE IF Head(pattern) = "%"
         THEN \/ like(content, Tail(pattern))
              \/ content # <<>> /\ like(Tail(content), pattern)
         ELSE /\ content # <<>>
              /\ Head(pattern) = "_" \/ lower(Head(pattern)) = lower(Head(content))
              /\ like(Tail(content), Tail(pattern))

\* WHERE user_id = ? AND course_name = ? AND importance >= ?
\*   AND (content LIKE ? OR ...) [AND event_type IN (...)]
search_where(row, a) ==
    /\ row.user_id = a.user_id
    /\ row.course_name = a.course_name
    /\ row.importance >= a.min_importance
    /\ \E i \in 1..Len(search_terms(a.query)) :
          like(row.content, <<"%">> \o search_terms(a.query)[i] \o <<"%">>)
    /\ a.event_types # NoTypes => row.event_type \in a.event_types

\* ORDER BY importance DESC, created_at DESC: row r comes before row q
order_before(r, q) ==
    \/ r.importance > q.importance
    \/ r.importance = q.importance /\ r.created_at > q.created_at

\* the rows of S in that order
RECURSIVE order_by(_)
order_by(S) ==
    IF S = {} THEN <<>>
    ELSE LET first == CHOOSE r \in S : \A q \in S \ {r} : order_before(r, q)
         IN <<first>> \o order_by(S \ {first})

\* LIMIT ?
limit(rows, n) == SubSeq(rows, 1, IF Len(rows) < n THEN Len(rows) ELSE n)

search_episodes_rows(episodes, a) ==
    limit(order_by({episodes[i] : i \in {j \in 1..Len(episodes) :
                                           search_where(episodes[j], a)}}),
          a.top_k)

MemIdle ==
    /\ m_episodes = <<>>
    /\ m_args = NoArgs
    /\ m_result = <<"idle">>

MemInit ==
    /\ m_episodes = <<>>
    /\ m_args = NoArgs
    /\ m_result = <<>>

\* save_episode: one INSERT; created_at is the time of the call, later for
\* every later call
save_episode ==
    /\ UNCHANGED nonMemVars
    /\ m_args = NoArgs
    /\ Len(m_episodes) < MaxEpisodes
    /\ \E o \in Owners, t \in EventTypes, c \in EpisodeContents, imp \in Importances :
          m_episodes' = Append(m_episodes,
              [user_id |-> o[1], course_name |-> o[2], event_type |-> t,
               content |-> c, importance |-> imp,
               created_at |-> Len(m_episodes) + 1])
    /\ UNCHANGED <<m_args, m_result>>

\* search_episodes(query, course_name, user_id, event_types, top_k)
search_episodes ==
    /\ UNCHANGED nonMemVars
    /\ m_args = NoArgs
    /\ \E q \in Queries, o \in Owners, f \in TypeFilters, k \in 1..MaxTopK :
          LET a == [given |-> TRUE, query |-> q, user_id |-> o[1],
                    course_name |-> o[2], event_types |-> f, top_k |-> k,
                    min_importance |-> default_min_importance]
          IN /\ m_args' = a
             /\ m_result' = search_episodes_rows(m_episodes, a)
    /\ UNCHANGED m_episodes

\* ------------------------------------- MemoryManager.update_weak_points

\* a tag is a text, numbered, with or without blanks around it; text 0 is
\* the empty text
Tag(n) == [text |-> n, padded |-> FALSE]
Padded(n) == [text |-> n, padded |-> TRUE]

\* tag.strip()
strip(tag) == Tag(tag.text)

\* the truth value of a string: it is not empty
truthy(tag) == tag # Tag(0)

\* json.dumps of a list of strings, and json.loads of that text
json_dumps(list) == [json |-> list]
json_loads(text) == text.json

NoRow == [exists |-> FALSE]
NoCall == [called |-> FALSE]

\* the row that n calls with one new tag each leave behind
StoredAfter(n) ==
    IF n = 0 THEN NoRow
    ELSE [exists |-> TRUE,
          weak_points |-> json_dumps([i \in 1..n |-> Tag(n + 1 - i)])]

\* the lengths of the stored list a call can meet: empty, short, one below
\* the cap, full
StoredSizes == {0, 1, weak_points_cap - 1, weak_points_cap}

\* get_profile(...)["weak_points"]: [] without a row
get_weak_points(row) ==
    IF row.exists THEN json_loads(row.weak_points) ELSE <<>>

\* the tags a call can bring: two new ones, one of them padded as well, the
\* oldest stored one, and a blank one
NewTagChoices ==
    {Tag(weak_points_cap + 1), Padded(weak_points_cap + 1),
     Tag(weak_points_cap + 2), Tag(1), Padded(0)}

NewTagLists == UNION {[1..n -> NewTagChoices] : n \in 0..MaxTags}

\* for tag in tags: tag = tag.strip(); if tag and tag not in seen: append
RECURSIVE dedup_stripped(_, _)
dedup_stripped(tags, merged) ==
    IF tags = <<>> THEN merged
    ELSE LET tag == strip(Head(tags))
         IN dedup_stripped(Tail(tags),
                IF truthy(tag) /\ \A i \in 1..Len(merged) : merged[i] # tag
                THEN Append(merged, tag) ELSE merged)

\* merged[:20]
first_n(list, n) == SubSeq(list, 1, IF Len(list) < n THEN Len(list) ELSE n)

\* a variant that walks existing + new_tags
merge_weak_points_ExistingFirst(new_tags, existing) ==
    first_n(dedup_stripped(existing \o new_tags, <<>>), weak_points_cap)

\* the merge of update_weak_points: new_tags + existing, stripped,
\* de-duplicated, cut at 20
merge_weak_points(new_tags, existing) ==
    first_n(dedup_stripped(new_tags \o existing, <<>>), weak_points_cap)

\* upsert_profile(weak_points=merged): the row replaced, the list dumped
upsert_weak_points(row, merged) ==
    [exists |-> TRUE, weak_points |-> json_dumps(merged)]

WeakIdle ==
    /\ w_row = NoRow
    /\ w_call = [called |-> FALSE, idle |-> TRUE]

WeakInit ==
    /\ w_row \in {StoredAfter(n) : n \in StoredSizes}
    /\ w_call = NoCall

\* update_weak_points(course_name, new_tags)
update_weak_points ==
    /\ UNCHANGED nonWeakVars
    /\ \E new_tags \in NewTagLists :
          /\ w_call' = [called |-> TRUE, new_tags |-> new_tags,
                        existing |-> get_weak_points(w_row)]
          /\ w_row' = IF new_tags = <<>> THEN w_row
                      ELSE upsert_weak_points(w_row,
                               merge_weak_points(new_tags, get_weak_points(w_row)))

\* ------------------------------------------ writers of one user profile

\* the requests that write the profile at the same time
Writers == 1..MaxWriters

\* the scores of a graded answer
Scores == {0, 100}

NoLocal == [kind |-> "none"]

\* get_profile: the row, or the default values without one
get_profile(row) ==
    IF row.exists
    THEN [weak_points |-> json_loads(row.weak_points),
          total_practice |-> row.total_practice, avg_score |-> row.avg_score]
    ELSE [weak_points |-> <<>>, total_practice |-> 0, avg_score |-> 0]

\* round((old_avg * (total - 1) + score) / total, 1), in tenths of a point
new_avg_score(old_avg, total, score) ==
    (2 * (old_avg * (total - 1) + 10 * score) + total) \div (2 * total)

\* profile.update(fields)
profile_update(profile, fields) ==
    IF fields.kind = "practice"
    THEN [profile EXCEPT !.total_practice = fields.total_practice,
                         !.avg_score = fields.avg_score]
    ELSE [profile EXCEPT !.weak_points = fields.weak_points]

\* INSERT OR REPLACE INTO user_profiles: the whole row, weak_points dumped
replace_row(profile) ==
    [exists |-> TRUE, weak_points |-> json_dumps(profile.weak_points),
     total_practice |-> profile.total_practice,
     avg_score |-> profile.avg_score]

ProfIdle ==
    /\ f_row = NoRow
    /\ f_pc = <<>>
    /\ f_local = <<>>
    /\ f_calls = 0
    /\ f_recorded = 0
    /\ f_merged = {}

ProfInit ==
    /\ f_row = NoRow
    /\ f_pc = [w \in Writers |-> "idle"]
    /\ f_local = [w \in Writers |-> NoLocal]
    /\ f_calls = 0
    /\ f_recorded = 0
    /\ f_merged = {}

\* record_practice_result, up to its upsert_profile call: the profile read,
\* total and new_avg computed
record_practice_result ==
    /\ UNCHANGED nonProfVars
    /\ f_calls < MaxProfileCalls
    /\ \E w \in Writers, score \in Scores :
          /\ f_pc[w] = "idle"
          /\ LET p == get_profile(f_row)
                 total == p.total_practice + 1
             IN f_local' = [f_local EXCEPT ![w] =
                    [kind |-> "practice", total_practice |-> total,
                     avg_score |-> new_avg_score(p.avg_score, total, score)]]
          /\ f_pc' = [f_pc EXCEPT ![w] = "upsert"]
    /\ f_calls' = f_calls + 1
    /\ UNCHANGED <<f_row, f_recorded, f_merged>>

\* update_weak_points, up to its upsert_profile call: the profile read, the
\* call's tag merged into the list
update_weak_points_merge ==
    /\ UNCHANGED nonProfVars
    /\ f_calls < MaxProfileCalls
    /\ \E w \in Writers :
          /\ f_pc[w] = "idle"
          /\ f_local' = [f_local EXCEPT ![w] =
                 [kind |-> "weak", tag |-> Tag(f_calls + 1),
                  weak_points |-> merge_weak_points(<<Tag(f_calls + 1)>>,
                                      get_profile(f_row).weak_points)]]
          /\ f_pc' = [f_pc EXCEPT ![w] = "upsert"]
    /\ f_calls' = f_calls + 1
    /\ UNCHANGED <<f_row, f_recorded, f_merged>>

\* upsert_profile, first half: the profile read again and the fields put in
upsert_profile_get_profile ==
    /\ UNCHANGED nonProfVars
    /\ \E w \in Writers :
          /\ f_pc[w] = "upsert"
          /\ f_local' = [f_local EXCEPT ![w] =
                 [kind |-> f_local[w].kind, fields |-> f_local[w],
                  profile |-> profile_update(get_profile(f_row), f_local[w])]]
          /\ f_pc' = [f_pc EXCEPT ![w] = "replace"]
    /\ UNCHANGED <<f_row, f_calls, f_recorded, f_merged>>

\* upsert_profile, second half: the row replaced; the call returns
upsert_profile_replace ==
    /\ UNCHANGED nonProfVars
    /\ \E w \in Writers :
          /\ f_pc[w] = "replace"
          /\ f_row' = replace_row(f_local[w].profile)
          /\ f_recorded' = IF f_local[w].kind = "practice" THEN f_recorded + 1
                           ELSE f_recorded
          /\ f_merged' = IF f_local[w].kind = "weak"
                         THEN f_merged \cup {f_local[w].fields.tag}
                         ELSE f_merged
          /\ f_local' = [f_local EXCEPT ![w] = NoLocal]
          /\ f_pc' = [f_pc EXCEPT ![w] = "idle"]
    /\ UNCHANGED f_calls

\* ---------------------------------------------------- create_workspace

\* a course name is a sequence of characters
NameChars == {"a", " ", "/", "."}
CourseNames == UNION {[1..n -> NameChars] : n \in 0..MaxNameLen}

DataDir == "data_dir"

\* str.strip(): without the blanks at both ends
RECURSIVE lstrip(_)
lstrip(name) ==
    IF name # <<>> /\ Head(name) = " " THEN lstrip(Tail(name)) ELSE name

RECURSIVE rstrip(_)
rstrip(name) ==
    IF name # <<>> /\ name[Len(name)] = " "
    THEN rstrip(SubSeq(name, 1, Len(name) - 1)) ELSE name

str_strip(name) == rstrip(lstrip(name))

\* os.path.basename: what follows the last "/"
RECURSIVE basename(_)
basename(name) ==
    IF \E i \in 1..Len(name) : name[i] = "/" THEN basename(Tail(name))
    ELSE name

\* safe_name = os.path.basename(course_name.strip())
safe_name(course_name) == basename(str_strip(course_name))

\* if not safe_name or safe_name in (".", ".."): raise ValueError
name_invalid(name) == name \in {<<>>, <<".">>, <<".", ".">>}

\* os.path.join(self.data_dir, safe_name)
path_join(dir, name) == [dir |-> dir, name |-> name]

WsIdle ==
    /\ g_workspaces = <<>>
    /\ g_dirs = {}
    /\ g_status = "idle"

WsInit ==
    /\ g_workspaces = <<>>
    /\ g_dirs = {}
    /\ g_status = "started"

\* POST /workspaces with a name that is registered: 400
create_workspace_exists ==
    /\ UNCHANGED nonWsVars
    /\ \E course_name \in CourseNames :
          \E i \in 1..Len(g_workspaces) : g_workspaces[i].course_name = course_name
    /\ g_status' = "400"
    /\ UNCHANGED <<g_workspaces, g_dirs>>

\* POST /workspaces with a name get_workspace_path refuses: ValueError
create_workspace_invalid ==
    /\ UNCHANGED nonWsVars
    /\ \E course_name \in CourseNames :
          /\ \A i \in 1..Len(g_workspaces) : g_workspaces[i].course_name # course_name
          /\ name_invalid(safe_name(course_name))
    /\ g_status' = "ValueError"
    /\ UNCHANGED <<g_workspaces, g_dirs>>

\* POST /workspaces: the directory made, the workspace registered
create_workspace ==
    /\ UNCHANGED nonWsVars
    /\ Len(g_workspaces) < MaxWorkspaces
    /\ \E course_name \in CourseNames :
          /\ \A i \in 1..Len(g_workspaces) : g_workspaces[i].course_name # course_name
          /\ ~name_invalid(safe_name(course_name))
          /\ LET workspace_path == path_join(DataDir, safe_name(course_name))
             IN /\ g_dirs' = g_dirs \cup {workspace_path}
                /\ g_workspaces' = Append(g_workspaces,
                       [course_name |-> course_name, path |-> workspace_path])
    /\ g_status' = "created"

\* ---------------------------------------------------- MCPTools.call_tool

\* the names call_tool can be given: the five it has a branch for, and one
\* it has none for
ToolNames == DispatchedTools \cup {"unknown_tool"}

\* the "expression" argument: absent, a valid expression, an invalid one,
\* a value that is no string, and an expression that reaches BaseException
\* through ().__class__.__base__.__subclasses__() and throws it
Expressions == {"absent", "2 + 2", "2 +", "nonstring", "throw BaseException"}

\* what the body of a tool other than the calculator meets: its backend
\* (network, file system, database, model) works or raises an Exception
Backends == {"ok", "Exception"}

NoToolArgs == [given |-> FALSE]
NoOutcome == [raised |-> FALSE, returned |-> FALSE]

\* a returned result object
ToolResult(tool, success, has_error, has_result, value) ==
    [raised |-> FALSE, returned |-> TRUE, tool |-> tool, success |-> success,
     has_error |-> has_error, has_result |-> has_result, value |-> value]

\* an exception that leaves call_tool
Raised(exception) == [raised |-> TRUE, returned |-> FALSE, exception |-> exception]

\* eval(expression, safe_globals, {})
eval_expression(expression) ==
    CASE expression = "2 + 2" -> [kind |-> "value", value |-> 4]
      [] expression = "throw BaseException" -> [kind |-> "BaseException", value |-> 0]
      [] OTHER -> [kind |-> "Exception", value |-> 0]

\* calculator: try: eval ... except Exception: the error result
calculator(expression) ==
    LET out == eval_expression(IF expression = "absent" THEN "" ELSE expression)
    IN CASE out.kind = "value" -> ToolResult("calculator", TRUE, FALSE, TRUE, out.value)
         [] out.kind = "Exception" -> ToolResult("calculator", FALSE, TRUE, FALSE, 0)
         [] OTHER -> Raised(out.kind)

\* websearch, memory_search, mindmap_generator, filewriter: the body runs
\* inside try ... except Exception
other_tool(tool_name, backend) ==
    IF backend = "ok" THEN ToolResult(tool_name, TRUE, FALSE, TRUE, 0)
    ELSE ToolResult(tool_name, FALSE, TRUE, FALSE, 0)

\* call_tool(tool_name, **kwargs): a key "tool_name" among the arguments
\* meets the parameter of that name and the call raises TypeError
call_tool_result(a) ==
    CASE a.tool_name_key -> Raised("TypeError")
      [] a.tool_name = "calculator" -> calculator(a.expression)
      [] a.tool_name \in DispatchedTools -> other_tool(a.tool_name, a.backend)
      [] OTHER -> ToolResult(a.tool_name, FALSE, TRUE, FALSE, 0)

ToolIdle ==
    /\ t_args = NoToolArgs
    /\ t_outcome = [raised |-> FALSE, returned |-> FALSE, idle |-> TRUE]

ToolInit ==
    /\ t_args = NoToolArgs
    /\ t_outcome = NoOutcome

\* MCPTools.call_tool(tool_name, **kwargs)
mcp_call_tool ==
    /\ UNCHANGED nonToolVars
    /\ \E n \in ToolNames, k \in BOOLEAN, e \in Expressions, b \in Backends :
          LET a == [given |-> TRUE, tool_name |-> n, tool_name_key |-> k,
                    expression |-> e, backend |-> b]
          IN /\ t_args' = a
             /\ t_outcome' = call_tool_result(a)

\* ------------------------------------------- chat_stream.event_generator

\* what run_stream yields: a text, the empty text, a text that reads like
\* the sentinel, and the citations dict of the learn mode
StreamChunks == {"text", "", "[DONE]", "__citations__"}

\* what run_stream can raise: an Exception, or a BaseException that is none
\* (the one call_tool lets through, KeyboardInterrupt, SystemExit)
RaiseKinds == {"Exception", "BaseException"}

ErrorText == "error text"

\* json.dumps(chunk): a string in quotes, the dict in braces
sse_json_dumps(chunk) ==
    IF chunk = "__citations__" THEN <<"{", chunk, "}">>
    ELSE <<"\"", chunk, "\"">>

\* f"data: {json.dumps(chunk)}\n\n"
DataEvent(chunk) == <<"data: ">> \o sse_json_dumps(chunk)

\* "data: [DONE]\n\n"
DoneEvent == <<"data: ", "[DONE]">>

\* if chunk: yield the data event
event_for_chunk(events, chunk) ==
    IF chunk # "" THEN Append(events, DataEvent(chunk)) ELSE events

SseIdle ==
    /\ v_pc = "idle"
    /\ v_pulled = <<>>
    /\ v_events = <<>>
    /\ v_raised = "none"

SseInit ==
    /\ v_pc = "for"
    /\ v_pulled = <<>>
    /\ v_events = <<>>
    /\ v_raised = "none"

\* run_stream yields a chunk
event_generator_chunk ==
    /\ UNCHANGED nonSseVars
    /\ v_pc = "for"
    /\ Len(v_pulled) < MaxStreamChunks
    /\ \E chunk \in StreamChunks :
          /\ v_pulled' = Append(v_pulled, chunk)
          /\ v_events' = event_for_chunk(v_events, chunk)
    /\ UNCHANGED <<v_pc, v_raised>>

\* run_stream returns: the for loop ends
event_generator_exhausted ==
    /\ UNCHANGED nonSseVars
    /\ v_pc = "for"
    /\ v_pc' = "finally"
    /\ UNCHANGED <<v_pulled, v_events, v_raised>>

\* run_stream raises: except Exception takes an Exception, nothing else
event_generator_raise ==
    /\ UNCHANGED nonSseVars
    /\ v_pc = "for"
    /\ \E kind \in RaiseKinds :
          /\ v_raised' = kind
          /\ v_pc' = IF kind = "Exception" THEN "except" ELSE "finally"
    /\ UNCHANGED <<v_pulled, v_events>>

\* except Exception as e: yield the error text
event_generator_except ==
    /\ UNCHANGED nonSseVars
    /\ v_pc = "except"
    /\ v_events' = Append(v_events, DataEvent(ErrorText))
    /\ v_pc' = "finally"
    /\ UNCHANGED <<v_pulled, v_raised>>

\* finally: yield the sentinel; an exception that was not caught goes on
event_generator_finally ==
    /\ UNCHANGED nonSseVars
    /\ v_pc = "finally"
    /\ v_events' = Append(v_events, DoneEvent)
    /\ v_pc' = IF v_raised = "BaseException" THEN "raised" ELSE "done"
    /\ UNCHANGED <<v_pulled, v_raised>>

\* ------------------------------------- the notes directory of filewriter

\* the learn turns under way at the same time, and their courses
LearnTurns == 1..MaxLearnTurns
NoteCourses == {"c1", "c2"}

\* os.path.join(workspace_path, "notes") of a course
notes_dir_of(course) == <<DataDir, course, "notes">>

\* MCPTools._context.get("notes_dir", "./data/notes") before any turn
default_notes_dir == <<".", "data", "notes">>

\* call_tool, filewriter branch: notes_dir is read from MCPTools._context
call_tool_notes_dir(context, course) == context

NoteIdle ==
    /\ n_context = default_notes_dir
    /\ n_pc = <<>>
    /\ n_course = <<>>
    /\ n_writes = <<>>
    /\ n_written = {}

NoteInit ==
    /\ n_context = default_notes_dir
    /\ n_pc = [t \in LearnTurns |-> "start"]
    /\ n_course \in [LearnTurns -> NoteCourses]
    /\ n_writes = [t \in LearnTurns |-> 0]
    /\ n_written = {}

\* run_learn_mode, up to the tutor's call: the turn's notes directory is
\* put into MCPTools._context
run_learn_mode_inject ==
    /\ UNCHANGED nonNoteVars
    /\ \E t \in LearnTurns :
          /\ n_pc[t] = "start"
          /\ n_context' = notes_dir_of(n_course[t])
          /\ n_pc' = [n_pc EXCEPT ![t] = "teach"]
    /\ UNCHANGED <<n_course, n_writes, n_written>>

\* the tool loop of the turn runs call_tool("filewriter", ...)
learn_filewriter_call ==
    /\ UNCHANGED nonNoteVars
    /\ \E t \in LearnTurns :
          /\ n_pc[t] = "teach"
          /\ n_writes[t] < MaxNoteWrites
          /\ n_writes' = [n_writes EXCEPT ![t] = n_writes[t] + 1]
          /\ n_written' = n_written \cup
                 {[course |-> n_course[t],
                   dir |-> call_tool_notes_dir(n_context, n_course[t])]}
    /\ UNCHANGED <<n_context, n_pc, n_course>>

\* the tutor's answer is complete: the turn returns
run_learn_mode_return ==
    /\ UNCHANGED nonNoteVars
    /\ \E t \in LearnTurns :
          /\ n_pc[t] = "teach"
          /\ n_pc' = [n_pc EXCEPT ![t] = "done"]
    /\ UNCHANGED <<n_context, n_course, n_writes, n_written>>

\* ------------------------------------ an index rebuilt while it is loaded

\* a file of the index: absent, or holding the data of a build, whole or
\* cut off (opened for writing, the data not yet written)
AbsentFile == [exists |-> FALSE, build |-> 0, whole |-> FALSE]
FileOf(build) == [exists |-> TRUE, build |-> build, whole |-> TRUE]
TruncatedFile == [exists |-> TRUE, build |-> 0, whole |-> FALSE]

NothingLoaded == [status |-> "none", index |-> 0, chunks |-> 0]

\* open(f"{path}.pkl", "wb"): the file is there and empty
open_wb(file) == TruncatedFile

\* pickle.load / faiss.read_index of a file: its data, or an exception
read_file(file) ==
    IF file.exists /\ file.whole THEN [raised |-> FALSE, build |-> file.build]
    ELSE [raised |-> TRUE, build |-> 0]

RebIdle ==
    /\ b_faiss = AbsentFile
    /\ b_pkl = AbsentFile
    /\ b_save_pc = "idle"
    /\ b_build = 0
    /\ b_load_pc = "idle"
    /\ b_loads = 0
    /\ b_loaded = NothingLoaded

\* a course without an index, or with the index of an earlier build
RebInit ==
    /\ \E built \in BOOLEAN :
          /\ b_faiss = (IF built THEN FileOf(1) ELSE AbsentFile)
          /\ b_pkl = (IF built THEN FileOf(1) ELSE AbsentFile)
          /\ b_build = (IF built THEN 1 ELSE 0)
    /\ b_save_pc = "none"
    /\ b_load_pc = "none"
    /\ b_loads = 0
    /\ b_loaded = NothingLoaded

\* build_workspace_index: store = build_index(chunks); store.save begins
build_workspace_index ==
    /\ UNCHANGED nonRebVars
    /\ b_save_pc = "none"
    /\ b_build < MaxBuilds
    /\ b_build' = b_build + 1
    /\ b_save_pc' = "write_index"
    /\ UNCHANGED <<b_faiss, b_pkl, b_load_pc, b_loads, b_loaded>>

\* save: with _faiss_chdir_lock: faiss.write_index
save_write_index ==
    /\ UNCHANGED nonRebVars
    /\ b_save_pc = "write_index"
    /\ b_faiss' = FileOf(b_build)
    /\ b_save_pc' = "open_pkl"
    /\ UNCHANGED <<b_pkl, b_build, b_load_pc, b_loads, b_loaded>>

\* save: open(f"{path}.pkl", "wb")
save_open_pkl ==
    /\ UNCHANGED nonRebVars
    /\ b_save_pc = "open_pkl"
    /\ b_pkl' = open_wb(b_pkl)
    /\ b_save_pc' = "dump"
    /\ UNCHANGED <<b_faiss, b_build, b_load_pc, b_loads, b_loaded>>

\* save: pickle.dump(self.chunks, f); the request returns
save_dump ==
    /\ UNCHANGED nonRebVars
    /\ b_save_pc = "dump"
    /\ b_pkl' = FileOf(b_build)
    /\ b_save_pc' = "none"
    /\ UNCHANGED <<b_faiss, b_build, b_load_pc, b_loads, b_loaded>>

\* load_retriever: os.path.exists(f"{index_path}.faiss"), None without it
load_retriever_exists ==
    /\ UNCHANGED nonRebVars
    /\ b_load_pc = "none"
    /\ b_loads < MaxLoads
    /\ b_loads' = b_loads + 1
    /\ b_load_pc' = IF b_faiss.exists THEN "read_index" ELSE "none"
    /\ b_loaded' = IF b_faiss.exists THEN NothingLoaded
                   ELSE [status |-> "no retriever", index |-> 0, chunks |-> 0]
    /\ UNCHANGED <<b_faiss, b_pkl, b_save_pc, b_build>>

\* load: with _faiss_chdir_lock: faiss.read_index
load_read_index ==
    /\ UNCHANGED nonRebVars
    /\ b_load_pc = "read_index"
    /\ LET got == read_file(b_faiss)
       IN /\ b_loaded' = IF got.raised
                         THEN [status |-> "raised", index |-> 0, chunks |-> 0]
                         ELSE [status |-> "loading", index |-> got.build, chunks |-> 0]
          /\ b_load_pc' = IF got.raised THEN "none" ELSE "read_pkl"
    /\ UNCHANGED <<b_faiss, b_pkl, b_save_pc, b_build, b_loads>>

\* load: open(f"{path}.pkl", "rb"); pickle.load
load_read_pkl ==
    /\ UNCHANGED nonRebVars
    /\ b_load_pc = "read_pkl"
    /\ LET got == read_file(b_pkl)
       IN b_loaded' = IF got.raised
                      THEN [status |-> "raised", index |-> b_loaded.index, chunks |-> 0]
                      ELSE [status |-> "loaded", index |-> b_loaded.index,
                            chunks |-> got.build]
    /\ b_load_pc' = "none"
    /\ UNCHANGED <<b_faiss, b_pkl, b_save_pc, b_build, b_loads>>

\* ------------------------------------------------------ GraderAgent.grade

\* the model's reply to the grading prompt: JSON of an object, the same in
\* a code fence, text that is no JSON, JSON that is no object
GradeReplies == {"json", "fenced json", "no json", "no object"}
GradeScores == {0, 50, 60, 100}

\* the memory write that raises during the call, if one does
MemoryFaults == {"none", "save_episode", "update_weak_points",
                 "record_practice_result"}

NoGrade == [called |-> FALSE]

\* the report of the except clause
ZeroReport == [score |-> 0, has_tags |-> FALSE, error |-> TRUE]

\* json.loads(json_str) and GradeReport(...) of the reply
parse_grade(reply, score, has_tags) ==
    IF reply \in {"json", "fenced json"}
    THEN [raised |-> FALSE,
          report |-> [score |-> score, has_tags |-> has_tags, error |-> FALSE]]
    ELSE [raised |-> TRUE, report |-> ZeroReport]

\* the memory writes of one grading, in order
memory_writes(score, has_tags) ==
    <<"save_episode">>
    \o (IF has_tags /\ score < mistake_below THEN <<"update_weak_points">>
        ELSE <<>>)
    \o <<"record_practice_result">>

\* the writes that took effect when the write named fault raises
RECURSIVE writes_before(_, _)
writes_before(writes, fault) ==
    IF writes = <<>> \/ Head(writes) = fault THEN <<>>
    ELSE <<Head(writes)>> \o writes_before(Tail(writes), fault)

\* a variant of _save_to_memory without its try ... except
_save_to_memory_NoExcept(score, has_tags, fault) ==
    LET writes == memory_writes(score, has_tags)
        done == writes_before(writes, fault)
    IN [raised |-> done # writes, done |-> done]

\* _save_to_memory: the writes inside try ... except Exception
_save_to_memory(score, has_tags, fault) ==
    LET writes == memory_writes(score, has_tags)
    IN [raised |-> FALSE, done |-> writes_before(writes, fault)]

\* grade: parse the reply, write the memory when a course is given, return
\* the report; the except clause returns the zero-score report
grade(reply, score, has_tags, course_given, fault) ==
    LET parsed == parse_grade(reply, score, has_tags)
        saved == IF ~parsed.raised /\ course_given
                 THEN _save_to_memory(score, has_tags, fault)
                 ELSE [raised |-> FALSE, done |-> <<>>]
    IN [report |-> IF saved.raised THEN ZeroReport ELSE parsed.report,
        done |-> saved.done]

\* the number of entries of the sequence that are the write w
CountWrites(done, w) == Cardinality({i \in 1..Len(done) : done[i] = w})

GradeIdle ==
    /\ d_episodes = 0
    /\ d_total_practice = 0
    /\ d_merges = 0
    /\ d_grades = 0
    /\ d_last = [called |-> FALSE, idle |-> TRUE]

GradeInit ==
    /\ d_episodes = 0
    /\ d_total_practice = 0
    /\ d_merges = 0
    /\ d_grades = 0
    /\ d_last = NoGrade

\* GraderAgent.grade(question, standard_answer, rubric, student_answer,
\* course_name)
grader_grade ==
    /\ UNCHANGED nonGradeVars
    /\ d_grades < MaxGrades
    /\ d_grades' = d_grades + 1
    /\ \E reply \in GradeReplies, score \in GradeScores, has_tags \in BOOLEAN,
          course_given \in BOOLEAN, fault \in MemoryFaults :
          LET out == grade(reply, score, has_tags, course_given, fault)
          IN /\ d_last' = [called |-> TRUE, reply |-> reply, score |-> score,
                           has_tags |-> has_tags, course_given |-> course_given,
                           fault |-> fault, report |-> out.report,
                           done |-> out.done]
             /\ d_episodes' = d_episodes + CountWrites(out.done, "save_episode")
             /\ d_merges' = d_merges + CountWrites(out.done, "update_weak_points")
             /\ d_total_practice' =
                    d_total_practice + CountWrites(out.done, "record_practice_result")

\* ------------------------------------------------- the tool-calling loop

Unset == "<unset>"
ErrorString == "Error calling LLM"
NoExec == [id |-> 0, name |-> "", ran |-> FALSE, args |-> ""]

\* msg.content or ""
content_or_empty(c) == IF c = None THEN "" ELSE c

\* the call ids the provider hands out for a response with n tool calls
NewIds(base, n) == [i \in 1..n |-> base + i - 1]

\* try: json.loads(arguments) except json.JSONDecodeError: {}
\* "dict": a dict; "empty": {} after JSONDecodeError; "nondict": any other
\* JSON value, which json.loads returns without raising
json_loads_or_empty(args) ==
    CASE args = "object" -> "dict"
      [] args = "malformed" -> "empty"
      [] OTHER -> "nondict"

\* one iteration of `for tool_call in msg.tool_calls` on the call tc with
\* id `id`: decode the arguments, call the tool, append the tool-role turn.
\* call_tool(name, **tool_args) raises when tool_args is no dict, and
\* json.dumps raises on a result that cannot be encoded: then the for loop
\* is left at once, with no tool-role turn for this call.
ExecToolCall(tc, id, msgs) ==
    LET tool_args == json_loads_or_empty(tc.args)
        tool_result == call_tool(tc.name)
    IN IF tool_args = "nondict"
       THEN [raised |-> TRUE, invoked |-> FALSE,
             exec |-> [id |-> id, name |-> tc.name, ran |-> FALSE,
                       args |-> tool_args],
             messages |-> msgs]
       ELSE [raised   |-> tool_result.ran /\ ~tc.result_json,
             invoked  |-> TRUE,
             exec     |-> [id |-> id, name |-> tc.name, ran |-> tool_result.ran,
                           args |-> tool_args],
             messages |-> IF tool_result.ran /\ ~tc.result_json
                          THEN msgs ELSE Append(msgs, ToolTurn(id))]

Response(kind, content) == [kind |-> kind, content |-> content]

\* no gateway call is running
LoopIdle ==
    /\ mode = ""
    /\ streaming = FALSE
    /\ tools = <<>>
    /\ pc = "idle"
    /\ round_idx = 0
    /\ messages = <<>>
    /\ nextId = 1
    /\ requests = <<>>
    /\ responses = <<>>
    /\ sent = <<>>
    /\ roundCalls = <<>>
    /\ roundExec = <<>>
    /\ lastExec = NoExec
    /\ yielded = <<>>
    /\ result = Unset
    /\ excAt = 0

\* every other part of the model at rest
NonLoopIdle ==
    /\ PlanIdle
    /\ RecIdle
    /\ EvIdle
    /\ RunIdle
    /\ CtxIdle
    /\ ChunkIdle
    /\ StoreIdle
    /\ MemIdle
    /\ WeakIdle
    /\ ProfIdle
    /\ WsIdle
    /\ ToolIdle
    /\ SseIdle
    /\ NoteIdle
    /\ RebIdle
    /\ GradeIdle

NonPlanIdle ==
    /\ LoopIdle
    /\ RecIdle
    /\ EvIdle
    /\ RunIdle
    /\ CtxIdle
    /\ ChunkIdle
    /\ StoreIdle
    /\ MemIdle
    /\ WeakIdle
    /\ ProfIdle
    /\ WsIdle
    /\ ToolIdle
    /\ SseIdle
    /\ NoteIdle
    /\ RebIdle
    /\ GradeIdle

NonRecIdle ==
    /\ LoopIdle
    /\ PlanIdle
    /\ EvIdle
    /\ RunIdle
    /\ CtxIdle
    /\ ChunkIdle
    /\ StoreIdle
    /\ MemIdle
    /\ WeakIdle
    /\ ProfIdle
    /\ WsIdle
    /\ ToolIdle
    /\ SseIdle
    /\ NoteIdle
    /\ RebIdle
    /\ GradeIdle

NonEvIdle ==
    /\ LoopIdle
    /\ PlanIdle
    /\ RecIdle
    /\ RunIdle
    /\ CtxIdle
    /\ ChunkIdle
    /\ StoreIdle
    /\ MemIdle
    /\ WeakIdle
    /\ ProfIdle
    /\ WsIdle
    /\ ToolIdle
    /\ SseIdle
    /\ NoteIdle
    /\ RebIdle
    /\ GradeIdle

NonRunIdle ==
    /\ LoopIdle
    /\ PlanIdle
    /\ RecIdle
    /\ EvIdle
    /\ CtxIdle
    /\ ChunkIdle
    /\ StoreIdle
    /\ MemIdle
    /\ WeakIdle
    /\ ProfIdle
    /\ WsIdle
    /\ ToolIdle
    /\ SseIdle
    /\ NoteIdle
    /\ RebIdle
    /\ GradeIdle

NonCtxIdle ==
    /\ LoopIdle
    /\ PlanIdle
    /\ RecIdle
    /\ EvIdle
    /\ RunIdle
    /\ ChunkIdle
    /\ StoreIdle
    /\ MemIdle
    /\ WeakIdle
    /\ ProfIdle
    /\ WsIdle
    /\ ToolIdle
    /\ SseIdle
    /\ NoteIdle
    /\ RebIdle
    /\ GradeIdle

NonChunkIdle ==
    /\ LoopIdle
    /\ PlanIdle
    /\ RecIdle
    /\ EvIdle
    /\ RunIdle
    /\ CtxIdle
    /\ StoreIdle
    /\ MemIdle
    /\ WeakIdle
    /\ ProfIdle
    /\ WsIdle
    /\ ToolIdle
    /\ SseIdle
    /\ NoteIdle
    /\ RebIdle
    /\ GradeIdle

NonStoreIdle ==
    /\ LoopIdle
    /\ PlanIdle
    /\ RecIdle
    /\ EvIdle
    /\ RunIdle
    /\ CtxIdle
    /\ ChunkIdle
    /\ MemIdle
    /\ WeakIdle
    /\ ProfIdle
    /\ WsIdle
    /\ ToolIdle
    /\ SseIdle
    /\ NoteIdle
    /\ RebIdle
    /\ GradeIdle

NonMemIdle ==
    /\ LoopIdle
    /\ PlanIdle
    /\ RecIdle
    /\ EvIdle
    /\ RunIdle
    /\ CtxIdle
    /\ ChunkIdle
    /\ StoreIdle
    /\ WeakIdle
    /\ ProfIdle
    /\ WsIdle
    /\ ToolIdle
    /\ SseIdle
    /\ NoteIdle
    /\ RebIdle
    /\ GradeIdle

NonWeakIdle ==
    /\ LoopIdle
    /\ PlanIdle
    /\ RecIdle
    /\ EvIdle
    /\ RunIdle
    /\ CtxIdle
    /\ ChunkIdle
    /\ StoreIdle
    /\ MemIdle
    /\ ProfIdle
    /\ WsIdle
    /\ ToolIdle
    /\ SseIdle
    /\ NoteIdle
    /\ RebIdle
    /\ GradeIdle

NonProfIdle ==
    /\ LoopIdle
    /\ PlanIdle
    /\ RecIdle
    /\ EvIdle
    /\ RunIdle
    /\ CtxIdle
    /\ ChunkIdle
    /\ StoreIdle
    /\ MemIdle
    /\ WeakIdle
    /\ WsIdle
    /\ ToolIdle
    /\ SseIdle
    /\ NoteIdle
    /\ RebIdle
    /\ GradeIdle

NonWsIdle ==
    /\ LoopIdle
    /\ PlanIdle
    /\ RecIdle
    /\ EvIdle
    /\ RunIdle
    /\ CtxIdle
    /\ ChunkIdle
    /\ StoreIdle
    /\ MemIdle
    /\ WeakIdle
    /\ ProfIdle
    /\ ToolIdle
    /\ SseIdle
    /\ NoteIdle
    /\ RebIdle
    /\ GradeIdle

NonToolIdle ==
    /\ LoopIdle
    /\ PlanIdle
    /\ RecIdle
    /\ EvIdle
    /\ RunIdle
    /\ CtxIdle
    /\ ChunkIdle
    /\ StoreIdle
    /\ MemIdle
    /\ WeakIdle
    /\ ProfIdle
    /\ WsIdle
    /\ SseIdle
    /\ NoteIdle
    /\ RebIdle
    /\ GradeIdle

NonSseIdle ==
    /\ LoopIdle
    /\ PlanIdle
    /\ RecIdle
    /\ EvIdle
    /\ RunIdle
    /\ CtxIdle
    /\ ChunkIdle
    /\ StoreIdle
    /\ MemIdle
    /\ WeakIdle
    /\ ProfIdle
    /\ WsIdle
    /\ ToolIdle
    /\ NoteIdle
    /\ RebIdle
    /\ GradeIdle

NonNoteIdle ==
    /\ LoopIdle
    /\ PlanIdle
    /\ RecIdle
    /\ EvIdle
    /\ RunIdle
    /\ CtxIdle
    /\ ChunkIdle
    /\ StoreIdle
    /\ MemIdle
    /\ WeakIdle
    /\ ProfIdle
    /\ WsIdle
    /\ ToolIdle
    /\ SseIdle
    /\ RebIdle
    /\ GradeIdle

NonRebIdle ==
    /\ LoopIdle
    /\ PlanIdle
    /\ RecIdle
    /\ EvIdle
    /\ RunIdle
    /\ CtxIdle
    /\ ChunkIdle
    /\ StoreIdle
    /\ MemIdle
    /\ WeakIdle
    /\ ProfIdle
    /\ WsIdle
    /\ ToolIdle
    /\ SseIdle
    /\ NoteIdle
    /\ GradeIdle

NonGradeIdle ==
    /\ LoopIdle
    /\ PlanIdle
    /\ RecIdle
    /\ EvIdle
    /\ RunIdle
    /\ CtxIdle
    /\ ChunkIdle
    /\ StoreIdle
    /\ MemIdle
    /\ WeakIdle
    /\ ProfIdle
    /\ WsIdle
    /\ ToolIdle
    /\ SseIdle
    /\ NoteIdle
    /\ RebIdle

\* where a turn goes for a completion without tools
PlainPc == IF streaming THEN "stream_open" ELSE "chat"

Init ==
    /\ NonLoopIdle
    /\ mode \in Modes
    /\ streaming \in BOOLEAN
    /\ tools = <<>>
    /\ pc = "start"
    /\ round_idx = 0
    /\ messages = <<>>
    /\ nextId = 1
    /\ requests = <<>>
    /\ responses = <<>>
    /\ sent = <<>>
    /\ roundCalls = <<>>
    /\ roundExec = <<>>
    /\ lastExec = NoExec
    /\ yielded = <<>>
    /\ result = Unset
    /\ excAt = 0

\* OrchestrationRunner.run / run_stream up to the gateway call: the plan's
\* allowed_tools are the policy's; learn goes through TutorAgent.teach /
\* teach_stream (tools attached when allowed_tools is non-empty), practice
\* and exam call llm.chat / llm.chat_stream with no tools.
run ==
    /\ UNCHANGED nonLoopVars
    /\ pc = "start"
    /\ messages' = InitialMessages
    /\ LET allowed_tools == get_allowed_tools(mode)
           schemas == get_tool_schemas(allowed_tools)
       IN IF mode = "learn" /\ allowed_tools # <<>>
          THEN /\ tools' = schemas
               /\ pc' = IF schemas = <<>> THEN PlainPc ELSE "loop"
          ELSE /\ tools' = <<>>
               /\ pc' = PlainPc
    /\ UNCHANGED <<mode, streaming, round_idx, nextId, requests, responses,
                   sent, roundCalls, roundExec, lastExec, yielded, result,
                   excAt>>

\* chat_with_tools: if not msg.tool_calls: return msg.content or ""
ReturnContent(c) ==
    /\ result' = content_or_empty(c)
    /\ pc' = "done"
    /\ UNCHANGED yielded

\* a variant that streams the content of the response it already has,
\* with no further request
StreamAfterRounds_YieldContent(c) ==
    /\ yielded' = Append(yielded,
            [kind |-> "text", req |-> Len(requests) + 1, part |-> 1])
    /\ pc' = "done"
    /\ UNCHANGED result

\* chat_stream_with_tools: if not msg.tool_calls:
\*     yield from self.chat_stream(messages, ...); return
StreamAfterRounds(c) ==
    /\ pc' = "stream_open"
    /\ UNCHANGED <<result, yielded>>

\* the start of a round, common to both loops: the request with the tools
\* attached; it raises, or answers without tool calls (content c), or with
\* n tool calls, for which the assistant turn carrying their ids is appended
RoundRequest ==
    /\ requests' = Append(requests, "tools")
    /\ sent' = messages
    /\ \/ /\ responses' = Append(responses, Response("raise", None))
          /\ excAt' = Len(requests')
          /\ pc' = "except"
          /\ UNCHANGED <<messages, nextId, roundCalls, roundExec, result, yielded>>
       \/ \E c \in Contents(Len(requests')) :
             /\ responses' = Append(responses, Response("final", c))
             /\ IF streaming THEN StreamAfterRounds(c) ELSE ReturnContent(c)
             /\ UNCHANGED <<messages, nextId, roundCalls, roundExec, excAt>>
       \/ \E n \in ToolCallCounts :
             /\ responses' = Append(responses, Response("tools", None))
             /\ messages' = Append(messages, AssistantTurn(NewIds(nextId, n)))
             /\ roundCalls' = NewIds(nextId, n)
             /\ roundExec' = <<>>
             /\ nextId' = nextId + n
             /\ pc' = "exec"
             /\ UNCHANGED <<result, excAt, yielded>>
    /\ UNCHANGED <<mode, streaming, tools, round_idx, lastExec>>

\* LLMClient.chat_with_tools: the request of one round of
\* `for round_idx in range(max_rounds)`
chat_with_tools_round ==
    /\ UNCHANGED nonLoopVars
    /\ pc = "loop"
    /\ ~streaming
    /\ round_idx < max_rounds
    /\ RoundRequest

\* one iteration of the for loop over msg.tool_calls, common to both loops:
\* the next call of the response is tc; after the last call the round is
\* over, and the loop after `cap` rounds
ExecStep(cap, afterLoop) ==
    \E tc \in ModelCalls :
       LET id == roundCalls[Len(roundExec) + 1]
           out == ExecToolCall(tc, id, messages)
           last == Len(roundExec) + 1 = Len(roundCalls)
       IN /\ messages' = out.messages
          /\ roundExec' = IF out.invoked THEN Append(roundExec, id) ELSE roundExec
          /\ lastExec' = out.exec
          /\ IF out.raised
             THEN /\ excAt' = Len(requests)
                  /\ pc' = "except"
                  /\ round_idx' = round_idx
             ELSE /\ excAt' = excAt
                  /\ round_idx' = IF last THEN round_idx + 1 ELSE round_idx
                  /\ pc' = IF ~last THEN "exec"
                           ELSE IF round_idx + 1 = cap THEN afterLoop ELSE "loop"
          /\ UNCHANGED <<mode, streaming, tools, nextId, requests, responses,
                         sent, roundCalls, yielded, result>>

\* LLMClient.chat_with_tools: for tool_call in msg.tool_calls
chat_with_tools_exec ==
    /\ UNCHANGED nonLoopVars
    /\ pc = "exec"
    /\ ~streaming
    /\ ExecStep(max_rounds, "final")

\* LLMClient.chat_with_tools after the loop: one request without tools
chat_with_tools_final ==
    /\ UNCHANGED nonLoopVars
    /\ pc = "final"
    /\ ~streaming
    /\ requests' = Append(requests, "plain")
    /\ sent' = messages
    /\ \/ /\ responses' = Append(responses, Response("raise", None))
          /\ excAt' = Len(requests')
          /\ pc' = "except"
          /\ UNCHANGED result
       \/ \E c \in Contents(Len(requests')) :
             /\ responses' = Append(responses, Response("final", c))
             /\ result' = content_or_empty(c)
             /\ pc' = "done"
             /\ UNCHANGED excAt
    /\ UNCHANGED <<mode, streaming, tools, round_idx, messages, nextId,
                   roundCalls, roundExec, lastExec, yielded>>

\* LLMClient.chat: one request without tools; the content as it comes, or
\* the error string when the request raises
chat ==
    /\ requests' = Append(requests, "plain")
    /\ sent' = messages
    /\ \/ /\ responses' = Append(responses, Response("raise", None))
          /\ result' = ErrorString
       \/ \E c \in Contents(Len(requests')) :
             /\ responses' = Append(responses, Response("final", c))
             /\ result' = c
    /\ pc' = "done"
    /\ UNCHANGED <<mode, streaming, tools, round_idx, messages, nextId,
                   roundCalls, roundExec, lastExec, yielded, excAt>>

\* a variant whose handler lets the exception go to the caller
chat_with_tools_except_Reraise ==
    /\ UNCHANGED nonLoopVars
    /\ pc = "except"
    /\ ~streaming
    /\ pc' = "raised"
    /\ UNCHANGED <<mode, streaming, tools, round_idx, messages, nextId,
                   requests, responses, sent, roundCalls, roundExec, lastExec,
                   yielded, result, excAt>>

\* chat_with_tools: except Exception: return self.chat(messages, ...)
chat_with_tools_except ==
    /\ UNCHANGED nonLoopVars
    /\ pc = "except"
    /\ ~streaming
    /\ chat

\* run_practice_mode / run_exam_mode: llm.chat(messages, ...)
llm_chat ==
    /\ UNCHANGED nonLoopVars
    /\ pc = "chat"
    /\ chat

\* LLMClient.chat_stream_with_tools: the request of one round of the loop
chat_stream_with_tools_round ==
    /\ UNCHANGED nonLoopVars
    /\ pc = "loop"
    /\ streaming
    /\ round_idx < max_rounds_stream
    /\ RoundRequest

\* LLMClient.chat_stream_with_tools: for tool_call in msg.tool_calls
chat_stream_with_tools_exec ==
    /\ UNCHANGED nonLoopVars
    /\ pc = "exec"
    /\ streaming
    /\ ExecStep(max_rounds_stream, "stream_open")

Notice == [kind |-> "notice", req |-> 0, part |-> 0]

\* a variant whose handler yields the notice and takes up the tool rounds
\* again
chat_stream_with_tools_except_Retry ==
    /\ UNCHANGED nonLoopVars
    /\ pc = "except"
    /\ streaming
    /\ yielded' = Append(yielded, Notice)
    /\ pc' = IF round_idx < max_rounds_stream THEN "loop" ELSE "stream_open"
    /\ UNCHANGED <<mode, streaming, tools, round_idx, messages, nextId,
                   requests, responses, sent, roundCalls, roundExec, lastExec,
                   result, excAt>>

\* chat_stream_with_tools: except Exception: yield the degrade notice, then
\* yield from self.chat_stream(messages)
chat_stream_with_tools_except ==
    /\ UNCHANGED nonLoopVars
    /\ pc = "except"
    /\ streaming
    /\ yielded' = Append(yielded, Notice)
    /\ pc' = "stream_open"
    /\ UNCHANGED <<mode, streaming, tools, round_idx, messages, nextId,
                   requests, responses, sent, roundCalls, roundExec, lastExec,
                   result, excAt>>

\* LLMClient.chat_stream: the request with stream=True; when it raises the
\* error string is yielded
chat_stream_open ==
    /\ UNCHANGED nonLoopVars
    /\ pc = "stream_open"
    /\ requests' = Append(requests, "stream")
    /\ sent' = messages
    /\ \/ /\ responses' = Append(responses, Response("raise", None))
          /\ yielded' = Append(yielded,
                [kind |-> "error", req |-> Len(requests'), part |-> 0])
          /\ pc' = "done"
       \/ /\ responses' = Append(responses, Response("stream", None))
          /\ pc' = "streaming"
          /\ UNCHANGED yielded
    /\ UNCHANGED <<mode, streaming, tools, round_idx, messages, nextId,
                   roundCalls, roundExec, lastExec, result, excAt>>

\* the text chunks of request k yielded so far
TextChunks(k) == SelectSeq(yielded, LAMBDA ch : ch.kind = "text" /\ ch.req = k)

\* LLMClient.chat_stream: for chunk in stream: yield the delta's content
\* (a delta without content is skipped and changes nothing); the stream
\* ends, or raises and the error string is yielded
chat_stream_next ==
    /\ UNCHANGED nonLoopVars
    /\ pc = "streaming"
    /\ LET k == Len(requests)
           n == Len(TextChunks(k))
       IN \/ /\ n < MaxChunks
             /\ yielded' = Append(yielded,
                    [kind |-> "text", req |-> k, part |-> n + 1])
             /\ pc' = "streaming"
          \/ /\ pc' = "done"
             /\ UNCHANGED yielded
          \/ /\ yielded' = Append(yielded,
                    [kind |-> "error", req |-> k, part |-> n + 1])
             /\ pc' = "done"
    /\ UNCHANGED <<mode, streaming, tools, round_idx, messages, nextId,
                   requests, responses, sent, roundCalls, roundExec, lastExec,
                   result, excAt>>

Next ==
    \/ run
    \/ chat_with_tools_round
    \/ chat_with_tools_exec
    \/ chat_with_tools_final
    \/ chat_with_tools_except
    \/ llm_chat
    \/ chat_stream_with_tools_round
    \/ chat_stream_with_tools_exec
    \/ chat_stream_with_tools_except
    \/ chat_stream_open
    \/ chat_stream_next

Spec == Init /\ [][Next]_vars

\* ---- the router alone: plan() on every mode and reply

InitPlan == NonPlanIdle /\ PlanInit

NextPlan == router_plan

SpecPlan == InitPlan /\ [][NextPlan]_vars

\* ---- the runner's practice and exam turns

InitRecord == NonRecIdle /\ RecInit

NextRecord ==
    \/ run_practice_mode
    \/ run_practice_mode_stream_chunk
    \/ run_practice_mode_stream
    \/ run_exam_mode
    \/ run_exam_mode_stream_chunk
    \/ run_exam_mode_stream
    \/ generator_close

SpecRecord == InitRecord /\ [][NextRecord]_vars

\* ---- graded events of one course, back to back or concurrent

InitEvents == NonEvIdle /\ EvInit

NextEvents ==
    \/ practice_graded
    \/ exam_graded
    \/ clock_tick

SpecEvents == InitEvents /\ [][NextEvents]_vars

\* ---- one call of OrchestrationRunner.run

InitRun == NonRunIdle /\ RunInit

NextRun ==
    \/ run_plan
    \/ run_mode

SpecRun == InitRun /\ [][NextRun]_vars

\* ---- the retrieval step of the mode handlers

InitContext == NonCtxIdle /\ CtxInit

NextContext ==
    \/ handler_context
    \/ handler_respond

SpecContext == InitContext /\ [][NextContext]_vars

\* ---- simple_chunk_text on every text, chunk_size and overlap

InitChunk == NonChunkIdle /\ ChunkInit

NextChunk ==
    \/ simple_chunk_text
    \/ simple_chunk_text_window
    \/ simple_chunk_text_return

SpecChunk == InitChunk /\ [][NextChunk]_vars

\* ---- a FAISSStore built, saved and loaded

InitStore == NonStoreIdle /\ StoreInit

NextStore ==
    \/ store_add_chunks
    \/ store_save
    \/ store_load

SpecStore == InitStore /\ [][NextStore]_vars

\* ---- episodes saved and searched

InitMem == NonMemIdle /\ MemInit

NextMem ==
    \/ save_episode
    \/ search_episodes

SpecMem == InitMem /\ [][NextMem]_vars

\* ---- weak points merged into a profile

InitWeak == NonWeakIdle /\ WeakInit

NextWeak == update_weak_points

SpecWeak == InitWeak /\ [][NextWeak]_vars

\* ---- concurrent writers of one profile

InitProf == NonProfIdle /\ ProfInit

NextProf ==
    \/ record_practice_result
    \/ update_weak_points_merge
    \/ upsert_profile_get_profile
    \/ upsert_profile_replace

SpecProf == InitProf /\ [][NextProf]_vars

\* ---- workspaces created over the API

InitWs == NonWsIdle /\ WsInit

NextWs ==
    \/ create_workspace_exists
    \/ create_workspace_invalid
    \/ create_workspace

SpecWs == InitWs /\ [][NextWs]_vars

\* ---- tools called by name

InitTool == NonToolIdle /\ ToolInit

NextTool == mcp_call_tool

SpecTool == InitTool /\ [][NextTool]_vars

\* ---- the events of one /chat/stream response

InitSse == NonSseIdle /\ SseInit

NextSse ==
    \/ event_generator_chunk
    \/ event_generator_exhausted
    \/ event_generator_raise
    \/ event_generator_except
    \/ event_generator_finally

SpecSse == InitSse /\ [][NextSse]_vars

\* ---- concurrent learn turns writing notes

InitNote == NonNoteIdle /\ NoteInit

NextNote ==
    \/ run_learn_mode_inject
    \/ learn_filewriter_call
    \/ run_learn_mode_return

SpecNote == InitNote /\ [][NextNote]_vars

\* ---- an index rebuilt while a retriever loads it

InitReb == NonRebIdle /\ RebInit

NextReb ==
    \/ build_workspace_index
    \/ save_write_index
    \/ save_open_pkl
    \/ save_dump
    \/ load_retriever_exists
    \/ load_read_index
    \/ load_read_pkl

SpecReb == InitReb /\ [][NextReb]_vars

\* ---- answers graded and written to the memory

InitGrade == NonGradeIdle /\ GradeInit

NextGrade == grader_grade

SpecGrade == InitGrade /\ [][NextGrade]_vars

\* ---------------------------------------------- the tool loop's properties

Count(seq, v) == Cardinality({i \in 1..Len(seq) : seq[i] = v})

Last(seq) == seq[Len(seq)]

\* the requests of the tool rounds that were answered without a tool call
LoopFinals ==
    {k \in 1..Len(responses) : requests[k] = "tools" /\ responses[k].kind = "final"}

\* every request of the tool rounds was answered with tool calls, and no
\* request failed
ModelAlwaysRequestsTool ==
    \A k \in 1..Len(responses) :
        /\ responses[k].kind # "raise"
        /\ requests[k] = "tools" => responses[k].kind = "tools"

\* C1: chat_with_tools with a non-empty tool list, against a model that
\* requests a tool in every response, performs exactly 6 requests with the
\* tools attached, then exactly one request without tools, and returns that
\* request's content.
C1_CapThenFinal ==
    (pc = "done" /\ ~streaming /\ tools # <<>> /\ ModelAlwaysRequestsTool)
        => /\ Count(requests, "tools") = max_rounds
           /\ Len(requests) = max_rounds + 1
           /\ Last(requests) = "plain"
           /\ result = content_or_empty(Last(responses).content)

\* C3: every tool run through call_tool during a turn in mode m is in the
\* allow-list of m; no websearch runs during an exam turn.
C3_ExecutedToolsAllowed ==
    lastExec.ran =>
        /\ lastExec.name \in SeqToSet(get_allowed_tools(mode))
        /\ mode = "exam" => lastExec.name # "websearch"

\* C4 as stated: in both loops the first response without a tool call is
\* the final answer: its content is what is returned or streamed and no
\* request follows it.
C4_FirstFinalIsAnswer ==
    \A k \in LoopFinals :
        /\ Len(requests) = k
        /\ pc = "done" =>
              IF streaming
              THEN \A i \in 1..Len(yielded) : yielded[i].req = k
              ELSE result = content_or_empty(responses[k].content)

\* C4 as amended: in chat_with_tools the first response without a tool call
\* ends the loop, its content (or "" for None) is returned and no request
\* follows it; in chat_stream_with_tools it ends the rounds, its content is
\* dropped, and exactly one more request follows, a streamed completion
\* without tools on the same message list, whose output is what is yielded.
C4_FirstFinalEndsRounds ==
    \A k \in LoopFinals :
        IF streaming
        THEN /\ Len(requests) <= k + 1
             /\ pc \in {"stream_open", "streaming", "done"}
             /\ pc # "stream_open" =>
                   /\ Len(requests) = k + 1
                   /\ requests[k + 1] = "stream"
                   /\ sent = messages
             /\ \A i \in 1..Len(yielded) : yielded[i].req = k + 1
        ELSE /\ Len(requests) = k
             /\ pc = "done"
             /\ result = content_or_empty(responses[k].content)

\* C4's case: a streaming turn whose second response had no tool call, and
\* whose final streamed completion yielded text
C4_Witness ==
    /\ pc = "done"
    /\ streaming
    /\ 2 \in LoopFinals
    /\ responses[2].content = Text(2)
    /\ \E i \in 1..Len(yielded) : yielded[i].kind = "text"

\* the index of the latest response that carried tool calls, 0 if none
LastToolResponse ==
    LET ks == {k \in 1..Len(responses) : responses[k].kind = "tools"}
    IN IF ks = {} THEN 0 ELSE CHOOSE k \in ks : \A j \in ks : j <= k

\* msgs ends with the assistant turn carrying ids and one tool-role turn
\* per id, in the order of ids
EndsWithBlock(msgs, ids) ==
    LET n == Len(ids)
        L == Len(msgs)
    IN /\ L >= n + 1
       /\ msgs[L - n] = AssistantTurn(ids)
       /\ \A j \in 1..n : msgs[L - n + j] = ToolTurn(ids[j])

\* C5: for each response carrying tool calls c1..cn, when the next request
\* is sent the assistant turn carrying c1..cn has been appended, the tools
\* have been called in the order c1..cn, and one tool-role turn per call
\* has been appended in that order, each with the id of its call.
C5_RoundBlockInOrder ==
    (LastToolResponse > 0 /\ Len(requests) > LastToolResponse)
        => /\ EndsWithBlock(sent, roundCalls)
           /\ roundExec = roundCalls

\* the message list is causally well-formed: each assistant turn with tool
\* calls is followed, before any other turn, by a tool-role turn for each
\* of its ids, and each tool-role turn answers an id of the assistant turn
\* before it
WellFormed(msgs) ==
    \A i \in 1..Len(msgs) :
        /\ (msgs[i].role = "assistant" /\ msgs[i].tool_calls # <<>>) =>
              LET ids == msgs[i].tool_calls
              IN \A j \in 1..Len(ids) :
                    \E m \in (i + 1)..(i + Len(ids)) :
                        m <= Len(msgs) /\ msgs[m] = ToolTurn(ids[j])
        /\ msgs[i].role = "tool" =>
              \E a \in 1..(i - 1) :
                 /\ msgs[a].role = "assistant"
                 /\ \A m \in (a + 1)..(i - 1) : msgs[m].role = "tool"
                 /\ \E j \in 1..Len(msgs[a].tool_calls) :
                        msgs[a].tool_calls[j] = msgs[i].tool_call_id

\* C6: every message list sent to the provider (by a round, by the forced
\* final request, by the fallback after an exception) is causally
\* well-formed.
C6_SentWellFormed == WellFormed(sent)

\* C7: chat_stream_with_tools yields nothing until the tool rounds are over,
\* and once it has yielded a chunk no tool is called any more.
C7_RoundsBeforeStreaming ==
    [][/\ yielded' # yielded => pc' \in {"stream_open", "streaming", "done"}
       /\ yielded # <<>> =>
             /\ roundExec' = roundExec
             /\ lastExec' = lastExec
             /\ messages' = messages
             /\ Count(requests', "tools") = Count(requests, "tools")]_vars

\* C7's case: a streaming turn that ran a tool and then yielded text
C7_Witness ==
    /\ streaming
    /\ lastExec.ran
    /\ round_idx >= 2
    /\ \E i \in 1..Len(yielded) : yielded[i].kind = "text"

\* what LLMClient.chat returns for a response
ChatValue(r) == IF r.kind = "raise" THEN ErrorString ELSE r.content

C2_PlanFollowsPolicy ==
    (p_pc # "start" /\ p_mode \in Modes) =>
        /\ p_pc = "done"
        /\ p_plan.allowed_tools = MODE_POLICIES[p_mode]
        /\ p_plan.task_type = p_mode
        /\ p_mode = "exam" =>
              /\ p_plan.allowed_tools = <<"calculator">>
              /\ "websearch" \notin SeqToSet(p_plan.allowed_tools)

\* C2's case: an exam plan parsed from a fenced JSON object that asks for
\* websearch and another task type
C2_Witness ==
    /\ p_pc = "done"
    /\ p_mode = "exam"
    /\ p_reply.kind = "text"
    /\ p_reply.pieces = <<"fence_json", "json", "fence">>
    /\ "allowed_tools" \in p_reply.payload.keys
    /\ "websearch" \in SeqToSet(p_reply.payload.allowed_tools)
    /\ p_reply.payload.task_type = "general"
    /\ p_plan.style = "direct"

\* ------------------------------------------------ the records' properties

\* the text the detector of a finished turn saw
FullResponse == Join(r_reply.chunks)

\* the keywords of a set that occur in a text
KeywordsIn(keywords, text) ==
    {kw \in SeqToSet(keywords) : Contains(text, kw)}

TurnKeywords == IF r_mode = "practice" THEN PracticeKeywords ELSE ExamKeywords

TurnOver == r_pc \in {"done", "raised"}

\* C9: a practice (exam) turn writes a record file if and only if the
\* model's full response text contains at least 2 distinct keywords of the
\* practice (exam) keyword set, in the streaming and in the plain handler
\* alike; before the turn is over no file is written.
C9_RecordIffTwoKeywords ==
    /\ ~TurnOver => r_files = {}
    /\ TurnOver =>
         (r_files # {} <=>
             /\ r_reply.kind = "text"
             /\ Cardinality(KeywordsIn(TurnKeywords, FullResponse)) >= 2)

\* C9's case: a streamed exam turn whose answer holds exactly 2 keywords,
\* one of them across two chunks, and has written its record
C9_Witness ==
    /\ r_pc = "done"
    /\ r_mode = "exam"
    /\ r_streaming
    /\ r_reply.chunks = << <<"zong">>, <<"de2", "fen">>, <<"zong", "fen">> >>
    /\ Cardinality(KeywordsIn(ExamKeywords, FullResponse)) = 2
    /\ Cardinality(r_files) = 1

\* the entries of the practice window that are assistant messages
WindowAssistants ==
    LET msgs == LastN(r_history, practice_window)
    IN {i \in 1..Len(msgs) : msgs[i].role = "assistant"}

NewestAssistant ==
    LET msgs == LastN(r_history, practice_window)
    IN msgs[CHOOSE i \in WindowAssistants : \A j \in WindowAssistants : j <= i]

\* the note of a finished practice turn
PracticeNote ==
    IF r_streaming
    THEN IF r_yielded = <<>> THEN NoPath ELSE r_yielded[Len(r_yielded)].note
    ELSE r_response.note

PracticeSaved == r_mode = "practice" /\ r_pc = "done" /\ r_files # {}

RecordShape(f) ==
    /\ f.path.course = CourseName
    /\ f.path.dir = "practices"
    /\ f.path.prefix = "practice_record"
    /\ f.path.ts \in Times
    /\ f.answer = r_user_message
    /\ f.grading = FullResponse
    /\ PracticeNote = f.path

\* C10 as stated: the record of a grading practice turn is
\* practices/练习记录_<timestamp>.md in the course workspace, holds the
\* user's current message as the answer, the content of the most recent
\* assistant message among the last 20 history entries as the question (the
\* placeholder when there is none) and the grading text, and the note
\* appended to the response names its path.
C10_RecordContent ==
    PracticeSaved =>
        \A f \in r_files :
            /\ RecordShape(f)
            /\ f.question = IF WindowAssistants = {} THEN Placeholder
                            ELSE NewestAssistant.content

\* C10 amended: as stated, but the question is the placeholder also when
\* the most recent assistant message among the last 20 entries has an empty
\* content.
C10_RecordContentOrPlaceholder ==
    PracticeSaved =>
        /\ Cardinality(r_files) = 1
        /\ \A f \in r_files :
            /\ RecordShape(f)
            /\ f.question = IF WindowAssistants = {} THEN Placeholder
                            ELSE IF NewestAssistant.content = "" THEN Placeholder
                            ELSE NewestAssistant.content

\* C10's case: a grading practice turn whose history has the question at
\* the oldest entry of the window, an assistant message before the window,
\* and a user message as newest entry
C10_Witness ==
    /\ PracticeSaved
    /\ Len(r_history) = practice_window + 1
    /\ r_history[1].role = "assistant"
    /\ r_history[2].role = "assistant"
    /\ r_history[Len(r_history)].role = "user"
    /\ \E f \in r_files : f.question = r_history[2].content /\ f.question # ""

\* C11: in the streaming practice and exam handlers a record file exists
\* only once the model's stream was consumed to its end, and it holds the
\* whole response; a generator abandoned by its consumer has written none.
C11_RecordAfterStreamEnd ==
    r_streaming =>
        /\ r_pc = "abandoned" => r_files = {}
        /\ r_files # {} =>
              /\ r_pc = "done"
              /\ r_collected = r_reply.chunks
              /\ \A f \in r_files : f.grading = Join(r_reply.chunks)

\* C11's case: the consumer left a practice stream before its last chunk,
\* when the text collected so far already held 2 keywords
C11_Witness ==
    /\ r_pc = "abandoned"
    /\ r_mode = "practice"
    /\ Len(r_collected) = 2
    /\ Len(r_reply.chunks) = 3
    /\ _is_practice_grading(Join(r_collected))
    /\ r_files = {}

\* C12: every graded practice or exam event leaves its own record file: N
\* graded events of a course leave N distinct files, none overwritten.
C12_OneFilePerEvent == Cardinality(e_files) = e_graded

\* the planner reply of the run parses and validates as a Plan
RunReplyParses ==
    /\ u_reply.kind = "text"
    /\ json_loads_ok(ExtractJson(u_reply.pieces))
    /\ u_reply.payload.type = "object"
    /\ PlanValid(OverrideWithPolicy(u_reply.payload, u_mode))

RunDefaultPlan ==
    [need_rag |-> TRUE, allowed_tools |-> MODE_POLICIES[u_mode],
     task_type |-> u_mode, style |-> "step_by_step",
     output_format |-> "answer"]

\* C13: for every mode in {learn, practice, exam} and every planner
\* outcome, run returns exactly one ChatMessage with role assistant and a
\* Plan, and the Plan is the mode's default when the reply does not parse.
C13_RunReturnsMessageAndPlan ==
    (u_mode \in Modes /\ u_pc \notin {"start", "planned"}) =>
        /\ u_pc = "returned"
        /\ Len(u_messages) = 1
        /\ u_messages[1].role = "assistant"
        /\ ~RunReplyParses => u_plan = RunDefaultPlan

\* C14: when the course has no index, a learn or practice turn whose plan
\* has need_rag set, and every exam turn, gets past the retrieval step
\* without raising, calls no retrieval, has the no-materials placeholder as
\* its context and attaches no citations.
C14_NoIndexPlaceholder ==
    (~c_index.exists /\ c_pc \notin {"idle", "start"}
        /\ (c_mode = "exam" \/ c_need_rag)) =>
        /\ c_raised_in # "context"
        /\ c_retrievals = 0
        /\ c_context = NoMaterials
        /\ c_citations = 0

\* C14's case: a learn turn with need_rag on a course without index that
\* returned its response
C14_Witness ==
    /\ ~c_index.exists
    /\ c_mode = "learn"
    /\ c_need_rag
    /\ c_pc = "returned"
    /\ c_context = NoMaterials

\* C15: for every text, chunk_size and overlap the start index of
\* successive windows strictly increases (so the loop ends after at most
\* len(text) windows), and a text with non-blank content yields at least
\* one chunk.
C15_ChunkingProgress ==
    /\ \A i \in 1..Len(k_starts) :
          /\ i > 1 => k_starts[i] > k_starts[i - 1]
          /\ k_start > k_starts[i]
    /\ Len(k_starts) <= Len(k_text)
    /\ (k_pc = "done" /\ NonBlank(k_text)) => k_chunks # <<>>

\* C16: after add_chunks calls, save and load into a fresh store, the
\* loaded chunk list has the length and order it had at the save, its
\* length is the number of vectors of the loaded index, and row i of the
\* index is the vector of chunks[i]; the same pairing holds in the store
\* that was built.
C16_RowsPairedWithChunks ==
    /\ Len(s_index) = Len(s_chunks)
    /\ \A i \in 1..Len(s_chunks) : s_index[i] = s_chunks[i].chunk_id
    /\ s_loaded.loaded =>
          /\ s_loaded.chunks = s_loaded.saved
          /\ Len(s_loaded.chunks) = Len(s_loaded.index)
          /\ \A i \in 1..Len(s_loaded.chunks) :
                s_loaded.index[i] = s_loaded.chunks[i].chunk_id

\* C16's case: a store built by two add_chunks calls, saved and loaded,
\* then grown again
C16_Witness ==
    /\ s_loaded.loaded
    /\ Len(s_loaded.chunks) = 2
    /\ s_loaded.chunks[1].doc_id # s_loaded.chunks[2].doc_id
    /\ Len(s_chunks) = 3


\* ------------------------------------------------ the episodes' properties

\* the sequence sub occurs in the sequence content, character for character
Occurs(content, sub) ==
    \E i \in 0..(Len(content) - Len(sub)) :
        SubSeq(content, i + 1, i + Len(sub)) = sub

\* the whitespace-separated terms of a query
QueryTerms(query) == {split(query, <<>>)[i] : i \in 1..Len(split(query, <<>>))}

\* C17: search_episodes returns only episodes of the given user and course
\* whose content contains a whitespace-separated term of the query and
\* whose event type is in event_types when the filter is given, ordered by
\* importance descending then creation time descending, at most top_k.
C17_SearchResult ==
    m_args.given =>
        /\ Len(m_result) <= m_args.top_k
        /\ \A i \in 1..Len(m_result) :
              /\ m_result[i].user_id = m_args.user_id
              /\ m_result[i].course_name = m_args.course_name
              /\ \E t \in QueryTerms(m_args.query) : Occurs(m_result[i].content, t)
              /\ m_args.event_types # NoTypes =>
                    m_result[i].event_type \in m_args.event_types
        /\ \A i, j \in 1..Len(m_result) :
              i < j => order_before(m_result[i], m_result[j])


\* --------------------------------------------- the weak points' properties

\* the positions of a call's tags that count: not blank, and not a repeat
\* of an earlier tag of the call
FirstMentions(tags) ==
    {i \in 1..Len(tags) :
        /\ tags[i].text # 0
        /\ \A j \in 1..(i - 1) : tags[j].text # tags[i].text}

\* the list holds exactly the entries of the sequence both, up to the cap
CutOf(list, both) ==
    /\ Len(list) = (IF Len(both) < weak_points_cap THEN Len(both)
                    ELSE weak_points_cap)
    /\ \A i \in 1..Len(list) : list[i] = both[i]

\* the tags of the call, stripped, each once, in the order given
CallTags(tags) ==
    LET keep(i) == i \in FirstMentions(tags)
        idx == SelectSeq([i \in 1..Len(tags) |-> i], keep)
    IN [k \in 1..Len(idx) |-> Tag(tags[idx[k]].text)]

\* the stored tags that are not among the call's
OtherTags(existing, tags) ==
    LET other(t) == \A i \in 1..Len(tags) : tags[i].text # t.text
    IN SelectSeq(existing, other)

\* C18: the weak_points list has no duplicates and at most 20 entries, and
\* right after a call with tags it is, up to the cap of 20, that call's
\* stripped, de-duplicated tags in the order given followed by the
\* previously stored tags that are not among them.
C18_WeakPointsMerged ==
    LET list == get_weak_points(w_row)
    IN /\ Len(list) <= weak_points_cap
       /\ \A i, j \in 1..Len(list) : i # j => list[i] # list[j]
       /\ (w_call.called /\ w_call.new_tags # <<>>) =>
             CutOf(list, CallTags(w_call.new_tags)
                            \o OtherTags(w_call.existing, w_call.new_tags))

\* C18's case: a call of two tags, the first a new one with blanks around
\* it, meets a full list: the stripped new tag leads and the tail is cut
C18_Witness ==
    /\ w_call.called
    /\ Len(w_call.existing) = weak_points_cap
    /\ Len(w_call.new_tags) = 2
    /\ w_call.new_tags[1] = Padded(weak_points_cap + 1)
    /\ Len(get_weak_points(w_row)) = weak_points_cap
    /\ get_weak_points(w_row)[1] = Tag(weak_points_cap + 1)
    /\ get_weak_points(w_row)[weak_points_cap] # w_call.existing[weak_points_cap]


\* ------------------------------------------- the profile writers' properties

\* no call is under way
WritersQuiet == f_pc # <<>> /\ \A w \in Writers : f_pc[w] = "idle"

\* C19: after any interleaving of N record_practice_result calls and any
\* update_weak_points calls on one profile, total_practice has grown by
\* exactly N and the tag of every update_weak_points call is in the list.
C19_NoLostUpdate ==
    WritersQuiet =>
        /\ get_profile(f_row).total_practice = f_recorded
        /\ \A t \in f_merged :
              \E i \in 1..Len(get_profile(f_row).weak_points) :
                  get_profile(f_row).weak_points[i] = t


\* ------------------------------------------------ the workspaces' properties

\* the path is one segment directly under the data directory
SingleSegment(path) ==
    /\ path.dir = DataDir
    /\ path.name \notin {<<>>, <<".">>, <<".", ".">>}
    /\ \A i \in 1..Len(path.name) : path.name[i] # "/"

\* C20: every registered course name maps to exactly one directory, a
\* single path segment directly under the data directory, and no two
\* distinct registered names map to the same directory.
C20_OneDirectoryPerName ==
    /\ \A i \in 1..Len(g_workspaces) :
          /\ g_workspaces[i].path \in g_dirs
          /\ SingleSegment(g_workspaces[i].path)
    /\ \A i, j \in 1..Len(g_workspaces) :
          i # j =>
             /\ g_workspaces[i].course_name # g_workspaces[j].course_name
             /\ g_workspaces[i].path # g_workspaces[j].path


\* ------------------------------------------------------ call_tool's properties

\* C21: call_tool never raises: for every tool name and argument set it
\* returns a result with the tool name and a boolean success flag; a failing
\* tool or an unknown name yields success = false with an error field, and
\* the calculator expression "2 + 2" yields success = true with the value 4.
C21_CallToolNeverRaises ==
    t_args.given =>
        /\ ~t_outcome.raised
        /\ t_outcome.returned
        /\ t_outcome.tool = t_args.tool_name
        /\ t_outcome.success \in BOOLEAN
        /\ ~t_outcome.success => t_outcome.has_error
        /\ t_args.tool_name \notin DispatchedTools => ~t_outcome.success
        /\ (t_args.tool_name = "calculator" /\ t_args.expression = "2 +") =>
              ~t_outcome.success
        /\ (t_args.tool_name = "calculator" /\ t_args.expression = "2 + 2") =>
              /\ t_outcome.success
              /\ t_outcome.has_result
              /\ t_outcome.value = 4


\* ------------------------------------------------ the event stream's properties

\* the response is over
StreamOver == v_pc \in {"done", "raised"}

\* the positions of the stream that hold the sentinel / the error text
SentinelAt == {i \in 1..Len(v_events) : v_events[i] = DoneEvent}
ErrorAt == {i \in 1..Len(v_events) : v_events[i] = DataEvent(ErrorText)}

\* exactly one sentinel ends the stream, and none comes earlier
C22_SentinelLast ==
    /\ StreamOver => SentinelAt = {Len(v_events)}
    /\ ~StreamOver => SentinelAt = {}

\* C22: the event stream of /chat/stream ends with exactly one sentinel
\* event as its last event whether run_stream finishes or raises, no event
\* follows the sentinel, and when run_stream raises a single error-text
\* event comes right before the sentinel.
C22_StreamEndsWithSentinel ==
    /\ C22_SentinelLast
    /\ (StreamOver /\ v_raised # "none") => ErrorAt = {Len(v_events) - 1}
    /\ (StreamOver /\ v_raised = "none") => ErrorAt = {}


\* ------------------------------------------------------ the notes' properties

\* C23: a filewriter call made during a learn turn for course C writes its
\* file directly under C's own notes directory, for every interleaving of
\* concurrent learn turns.
C23_NotesUnderOwnCourse ==
    \A w \in n_written : w.dir = notes_dir_of(w.course)


\* ---------------------------------------------------- the rebuild's properties

\* C24: a retriever load that runs concurrently with a rebuild of the same
\* course's index gets the complete old index or the complete new one: the
\* vectors and the chunks it loaded come from the same build, and the load
\* does not fail.
C24_LoadSeesOneBuild ==
    /\ b_loaded.status # "raised"
    /\ b_loaded.status = "loaded" => b_loaded.index = b_loaded.chunks


\* C25: when the arguments of a requested tool call do not decode to a JSON
\* object (no JSON, or JSON that is no object), the loop runs that tool with
\* an empty argument set, appends its tool-role result and goes on with the
\* remaining calls and rounds instead of leaving the tool loop.
C25_BadArgumentsRunEmpty ==
    [][(pc = "exec" /\ lastExec'.id # lastExec.id /\ lastExec'.args # "dict") =>
          /\ lastExec'.args = "empty"
          /\ roundExec' = Append(roundExec, lastExec'.id)
          /\ messages' = Append(messages, ToolTurn(lastExec'.id))
          /\ pc' # "except"]_vars


\* ------------------------------------------------------ the grader's properties

\* C26: grade returns the same report whether or not the memory writes
\* succeed: an exception of save_episode, update_weak_points or
\* record_practice_result never reaches the caller or the report; and when
\* the reply cannot be parsed the report is the zero-score one and no
\* memory write is attempted.
C26_ReportIndependentOfMemory ==
    d_last.called =>
        /\ d_last.reply \in {"json", "fenced json"} =>
              d_last.report = [score |-> d_last.score,
                               has_tags |-> d_last.has_tags, error |-> FALSE]
        /\ d_last.reply \notin {"json", "fenced json"} =>
              /\ d_last.report = ZeroReport
              /\ d_last.done = <<>>

\* C26's case: a mistake with tags is graded for a course and the merge of
\* the weak points raises after the episode was written
C26_Witness ==
    /\ d_last.called
    /\ d_last.course_given
    /\ d_last.reply = "json"
    /\ d_last.score = 50
    /\ d_last.has_tags
    /\ d_last.fault = "update_weak_points"
    /\ d_last.done = <<"save_episode">>
    /\ d_last.report.score = 50


\* C30: after any sequence of grade calls made with a course name, the
\* number of stored practice and mistake episodes equals the profile's
\* total_practice: the episode write, the weak-point merge and the
\* statistics update of one grading take effect together or not at all.
C30_EpisodesMatchTotal ==
    /\ d_episodes = d_total_practice
    /\ d_last.called =>
          d_last.done \in {<<>>, memory_writes(d_last.score, d_last.has_tags)}


\* C27: every practice turn retrieves context: once run_practice_mode or
\* its streaming counterpart has built its context, the retriever was
\* consulted or, with no index, the no-materials placeholder is the
\* context, whatever need_rag value the plan carries.
C27_PracticeAlwaysRetrieves ==
    (c_mode = "practice" /\ c_pc \notin {"idle", "start"} /\ c_raised_in # "context") =>
        \/ c_retrievals = 1
        \/ c_context = NoMaterials


\* the smaller of two numbers
Smaller(a, b) == IF a < b THEN a ELSE b

\* C28: a retrieval returns at most min(top_k, number of indexed chunks)
\* results and never the same chunk twice, also when top_k exceeds the
\* size of the index and the index pads its answer with id -1.
C28_SearchBounded ==
    (c_retrievals = 1 /\ c_pc \in {"context", "returned"}) =>
        /\ Len(c_results) <= Smaller(top_k_of(c_mode), c_index.size)
        /\ \A i, j \in 1..Len(c_results) : i # j => c_results[i] # c_results[j]


\* C29: run called with a mode outside learn, practice and exam does not
\* raise: it returns one assistant ChatMessage whose content is the
\* unknown-mode text of the mode, together with a Plan.
C29_UnknownModeAnswered ==
    (u_mode \in PlanModes \ Modes /\ u_pc \notin {"idle", "start", "planned"}) =>
        /\ u_pc = "returned"
        /\ u_messages = <<[role |-> "assistant", content |-> UnknownMode(u_mode)]>>
        /\ u_plan # NoPlan

====
